---------------------------- MODULE Spec2Model ----------------------------
(***************************************************************************)
(* Announcement arbitration of the seeing-eye assistant:                   *)
(*   - SpeechManager (src/src/lib/speech.ts): the priority-preemptive      *)
(*     speech queue in front of the browser's speech-synthesis sink;       *)
(*   - ModeManager (src/unnamed/part_002): the priority-gated operating    *)
(*     mode state machine.                                                 *)
(*   - the detection-announcement effect of BlindCompanion                 *)
(*     (src/src/components/BlindCompanion.tsx) and AccessibilityAssistant  *)
(*     (src/unnamed/part_003): the per-key announcement cooldown.          *)
(*   - useContinuousFeedback (src/src/hooks/useContinuousFeedback.ts):     *)
(*     the ambient heartbeat of safe-walk mode.                            *)
(*   - the action handlers and the fall alarm of BlindCompanion            *)
(*     (src/src/components/BlindCompanion.tsx), which drive ModeManager.   *)
(*   - useWakeWord (src/unnamed/part_005): the wake-word gate in front of  *)
(*     the voice commands.                                                 *)
(*   - HapticsManager (src/unnamed/part_001): the vibration patterns.      *)
(* Each component has its own specification (SpecSpeech, SpecMode,         *)
(* SpecCooldown, SpecHeartbeat, SpecApp, SpecWake, SpecHaptics); the       *)
(* variables of the others                                                 *)
(* stay at their initial values. SpecSteady runs the speech manager under  *)
(* a steady load with fair utterance callbacks.                            *)
(***************************************************************************)
EXTENDS Integers, Sequences, FiniteSets, TLC

\* Number of speak() calls explored (each call creates one queue item).
MaxSpeak == 4

(***************************************************************************)
(* SpeechManager state.                                                    *)
(*   synthesis   this.synthesis is non-null (window.speechSynthesis)       *)
(*   queue       this.queue, the pending items                             *)
(*   isSpeaking  this.isSpeaking                                           *)
(* The synthesis sink (the browser):                                       *)
(*   sinkQueue   utterances handed to synthesis.speak() that have neither  *)
(*               ended, errored nor been cancelled; the head is the one    *)
(*               being played, the sink plays them in order                *)
(*   cancelled   utterances removed by synthesis.cancel() whose end/error  *)
(*               event has not been delivered yet (the sink delivers it    *)
(*               asynchronously, possibly never)                           *)
(* History of the run:                                                     *)
(*   dispatched  every item passed to synthesis.speak(), in call order     *)
(*   nextId      identity of the next item (its text and timestamp)        *)
(*   last        the last operation, with the state it started from        *)
(*   stopMark    Len(dispatched) at the last stop(), -1 once speak() has   *)
(*               been called again (or before any stop())                  *)
(***************************************************************************)
VARIABLES synthesis, queue, isSpeaking, sinkQueue, cancelled,
          dispatched, nextId, last, stopMark

speechVars == <<synthesis, queue, isSpeaking, sinkQueue, cancelled,
                dispatched, nextId, last, stopMark>>

(***************************************************************************)
(* ModeManager state (src/unnamed/part_002).                               *)
(*   currentMode, previousMode, modeHistory   the fields                   *)
(*   listeners  the Set of subscribers, in insertion order (the order      *)
(*              Set.prototype.forEach visits them in)                      *)
(*   now        the clock Date.now() reads                                 *)
(*   lastMode   the last ModeManager call: its argument, its return value  *)
(*              (a ModeConfig), the calls it made to the subscribers and   *)
(*              the state it started from                                  *)
(***************************************************************************)
VARIABLES currentMode, previousMode, modeHistory, listeners,
          now, lastMode

modeVars == <<currentMode, previousMode, modeHistory, listeners,
              now, lastMode>>

(***************************************************************************)
(* Detection-announcement effect state (BlindCompanion.tsx 263-293).       *)
(*   component             the component the effect belongs to             *)
(*   announcementCooldown  announcementCooldownRef.current: cooldown key   *)
(*                         -> time of the last announcement, 0 for a key   *)
(*                         the Map does not hold (get(key) || 0)           *)
(*   cdNow                 the clock Date.now() reads, in ms               *)
(*   spokenAt              cooldown key -> time of the last speak() call   *)
(*                         the effect made for it, 0 if none               *)
(*   lastAnnounce          the run of the effect made at the current clock *)
(*                         value, if the last step was one: its inputs,    *)
(*                         the speak() calls it made and the time of the   *)
(*                         previous speak() call for its key               *)
(*   scene                 the detections the camera shows in this run     *)
(***************************************************************************)
VARIABLES component, announcementCooldown, cdNow, spokenAt, lastAnnounce,
          scene

cooldownVars == <<component, announcementCooldown, cdNow, spokenAt,
                  lastAnnounce, scene>>

(***************************************************************************)
(* useContinuousFeedback state (useContinuousFeedback.ts 21-98).           *)
(*   enabled, detections, navigation   the options the hook was rendered   *)
(*                   with; navigation is isNavigating with                 *)
(*                   currentNavigationStep                                 *)
(*   lastFeedbackRef lastFeedbackRef.current                               *)
(*   intervalDue     when the interval of the effect fires next, 0 if no   *)
(*                   interval is running                                   *)
(*   initialDue      when the initialTimeout fires, 0 if none is pending   *)
(*   followUps       the pending timeouts generateFeedback has set: due    *)
(*                   time and the step they will speak                     *)
(*   hbNow           the clock Date.now() reads and the timers run on, ms  *)
(*   tickDueBy       the latest time the next tick of the interval may     *)
(*                   fire at if it fires every intervalMs, 0 when disabled *)
(*   announcedAt     time of the last speak() call of generateFeedback     *)
(*                   that passed its guard, 0 if none                      *)
(*   lastHb          the step taken at the current clock value, if the     *)
(*                   last step was not the passing of time                 *)
(***************************************************************************)
VARIABLES enabled, detections, navigation, lastFeedbackRef, intervalDue,
          initialDue, followUps, hbNow, tickDueBy, announcedAt, lastHb

heartbeatVars == <<enabled, detections, navigation, lastFeedbackRef,
                   intervalDue, initialDue, followUps, hbNow, tickDueBy,
                   announcedAt, lastHb>>

(***************************************************************************)
(* BlindCompanion state (BlindCompanion.tsx).                              *)
(*   uiMode        the React state `mode`                                  *)
(*   fallDetected  the state fallDetected of useFallDetection              *)
(*   fallTimers    the pending timeouts onFallDetected has set: due time   *)
(*                 and the render whose values the callback closes over    *)
(*   appNow        the clock the timers run on, ms                         *)
(*   lastApp       the last handler run, with the modes it started from    *)
(***************************************************************************)
VARIABLES uiMode, fallDetected, fallTimers, appNow, lastApp

appVars == <<uiMode, fallDetected, fallTimers, appNow, lastApp>>

(***************************************************************************)
(* useWakeWord state (src/unnamed/part_005).                               *)
(*   isAwake          the state isAwake                                    *)
(*   awakeTimeoutDue  when the timeout of awakeTimeoutRef fires, 0 if none *)
(*                    is pending                                           *)
(*   onresult         recognition.onresult: "null" before startListening,  *)
(*                    else the isAwake the registered handleResult closes  *)
(*                    over ("awake" or "asleep")                           *)
(*   wkNow            the clock the timeout runs on, ms                    *)
(*   lastWake         the last step: the utterance recognized, how often   *)
(*                    onCommand and onWakeWord were called, and isAwake    *)
(*                    before it                                            *)
(***************************************************************************)
VARIABLES isAwake, awakeTimeoutDue, onresult, wkNow, lastWake

wakeVars == <<isAwake, awakeTimeoutDue, onresult, wkNow, lastWake>>

(***************************************************************************)
(* HapticsManager state (src/unnamed/part_001).                            *)
(*   isSupported  this.isSupported: 'vibrate' in navigator                 *)
(*   strength     this.strength                                            *)
(*   lastHaptic   the last method called: the patterns it passed to        *)
(*                navigator.vibrate, what it returned and whether an       *)
(*                exception left it                                        *)
(***************************************************************************)
VARIABLES isSupported, strength, lastHaptic

hapticsVars == <<isSupported, strength, lastHaptic>>

(***************************************************************************)
(* The pure functions: one call each, its arguments and its result.        *)
(*   command, commandResult     ModeManager.getModeForCommand              *)
(*   processed, selected        getMostImportantDetection                  *)
(*   directionInput, directionResult   getDirection                        *)
(*   distanceInput, distanceResult     estimateDistance                    *)
(***************************************************************************)
VARIABLES command, commandResult, processed, selected,
          directionInput, directionResult, distanceInput, distanceResult

(***************************************************************************)
(* The speech recognition of SpeechManager (src/src/lib/speech.ts).        *)
(*   recognitionSupported  this.recognition is not null                    *)
(*   isListening           this.isListening                                *)
(*   recognition           the recogniser: "idle", "running", or           *)
(*                         "stopping" (its end event is outstanding)       *)
(*   endTimers             restart timeouts set by onend, not yet fired    *)
(*   errorTimers           restart timeouts set by onerror, not yet fired  *)
(*   stopped               stopListening() has returned and startListening *)
(*                         has not been called since                       *)
(*   lastRec               the last step                                   *)
(***************************************************************************)
VARIABLES recognitionSupported, isListening, recognition, endTimers,
          errorTimers, stopped, lastRec

recognitionVars == <<recognitionSupported, isListening, recognition, endTimers,
                     errorTimers, stopped, lastRec>>

commandVars == <<command, commandResult>>
selectVars == <<processed, selected>>
directionVars == <<directionInput, directionResult>>
distanceVars == <<distanceInput, distanceResult>>
utilVars == <<commandVars, selectVars, directionVars, distanceVars,
              recognitionVars>>

\* The variables of the components added after the first four.
laterVars == <<appVars, wakeVars, hapticsVars, utilVars>>

\* What the actions of one component leave alone.
notSpeech == <<modeVars, cooldownVars, heartbeatVars, laterVars>>
notMode == <<speechVars, cooldownVars, heartbeatVars, laterVars>>
notCooldown == <<speechVars, modeVars, heartbeatVars, laterVars>>
notHeartbeat == <<speechVars, modeVars, cooldownVars, laterVars>>
notApp == <<speechVars, cooldownVars, heartbeatVars, listeners, now, lastMode,
            wakeVars, hapticsVars, utilVars>>
notWake == <<speechVars, modeVars, cooldownVars, heartbeatVars, appVars,
             hapticsVars, utilVars>>
notHaptics == <<speechVars, modeVars, cooldownVars, heartbeatVars, appVars,
                wakeVars, utilVars>>
stateVars == <<speechVars, modeVars, cooldownVars, heartbeatVars, appVars,
               wakeVars, hapticsVars>>
notCommand == <<stateVars, selectVars, directionVars, distanceVars,
                recognitionVars>>
notSelect == <<stateVars, commandVars, directionVars, distanceVars,
               recognitionVars>>
notDirection == <<stateVars, commandVars, selectVars, distanceVars,
                  recognitionVars>>
notDistance == <<stateVars, commandVars, selectVars, directionVars,
                 recognitionVars>>
notRecognition == <<stateVars, commandVars, selectVars, directionVars,
                    distanceVars>>

SpeechPriority == {"low", "normal", "high", "critical"}

Range(s) == {s[i] : i \in 1..Len(s)}

\* SpeechQueueItem: text and timestamp are never read by the manager; the
\* id stands for them (a fresh item per speak() call).
SpeechQueueItem(id, priority) == [id |-> id, priority |-> priority]

getPriorityValue(priority) ==
    CASE priority = "critical" -> 4
      [] priority = "high"     -> 3
      [] priority = "normal"   -> 2
      [] priority = "low"      -> 1
      [] OTHER                 -> 2

\* The manager together with its sink, as one value the methods transform.
Manager ==
    [queue |-> queue, isSpeaking |-> isSpeaking, sinkQueue |-> sinkQueue,
     cancelled |-> cancelled, dispatched |-> dispatched]

\* this.synthesis.cancel(): the sink drops everything it holds; the end or
\* error event of a dropped utterance is still outstanding.
synthesisCancel(m) ==
    [m EXCEPT !.cancelled = @ \cup Range(m.sinkQueue), !.sinkQueue = <<>>]

\* sortByPriority with an unstable sort: items of equal priority come out
\* in reverse order.
sortByPriority_unstable(q) ==
    LET pick(w) == SelectSeq(q, LAMBDA it : getPriorityValue(it.priority) = w)
        rev(t)  == [i \in 1..Len(t) |-> t[Len(t) + 1 - i]]
    IN  rev(pick(4)) \o rev(pick(3)) \o rev(pick(2)) \o rev(pick(1))

\* Array.prototype.sort with the comparator of speak(): a stable sort by
\* descending priority value.
sortByPriority(q) ==
    LET pick(w) == SelectSeq(q, LAMBDA it : getPriorityValue(it.priority) = w)
    IN  pick(4) \o pick(3) \o pick(2) \o pick(1)

\* Array.prototype.splice(1, 0, item): insert at index min(1, length).
spliceAt1(q, item) ==
    IF Len(q) = 0 THEN <<item>> ELSE <<Head(q), item>> \o Tail(q)

\* speakCritical putting the item in front of the pending queue instead of
\* replacing the queue.
speakCritical_keepsQueue(m, item) ==
    [synthesisCancel(m) EXCEPT !.queue = <<item>> \o m.queue, !.isSpeaking = FALSE]

\* speak(), branch priority === 'critical'.
speakCritical(m, item) ==
    [synthesisCancel(m) EXCEPT !.queue = <<item>>, !.isSpeaking = FALSE]

\* speakHighWhileSpeaking that never cancels: the item is inserted at index
\* 1 whatever the head is.
speakHighWhileSpeaking_neverCancels(m, item) ==
    [m EXCEPT !.queue = spliceAt1(m.queue, item)]

\* speak(), branch priority === 'high' && this.isSpeaking.
speakHighWhileSpeaking(m, item) ==
    LET currentPriority ==
            IF Len(m.queue) > 0 THEN m.queue[1].priority ELSE "undefined"
    IN  IF currentPriority # "critical"
        THEN [synthesisCancel(m) EXCEPT !.queue = <<item>> \o m.queue,
                                        !.isSpeaking = FALSE]
        ELSE [m EXCEPT !.queue = spliceAt1(m.queue, item)]

\* speak(), else branch: push and sort.
speakEnqueue(m, item) ==
    [m EXCEPT !.queue = sortByPriority(Append(m.queue, item))]

\* speak() up to the call of processQueue().
speakBranches(m, item) ==
    IF item.priority = "critical" THEN speakCritical(m, item)
    ELSE IF item.priority = "high" /\ m.isSpeaking
         THEN speakHighWhileSpeaking(m, item)
         ELSE speakEnqueue(m, item)

\* processQueue reading the head with queue[0] instead of queue.shift().
processQueue_keepsHead(m, throws) ==
    IF m.isSpeaking \/ Len(m.queue) = 0 \/ ~synthesis THEN m
    ELSE LET item == Head(m.queue)
         IN  [m EXCEPT !.isSpeaking = TRUE,
                       !.dispatched = Append(@, item),
                       !.sinkQueue = IF throws THEN @ ELSE Append(@, item)]

\* processQueue(). throws: the call synthesis.speak(utterance) raises, so
\* the sink does not hold the utterance (the code has no try/catch: the
\* flag stays set and the exception leaves the method).
processQueue(m, throws) ==
    IF m.isSpeaking \/ Len(m.queue) = 0 \/ ~synthesis THEN m
    ELSE LET item == Head(m.queue)
         IN  [m EXCEPT !.queue = Tail(m.queue),
                       !.isSpeaking = TRUE,
                       !.dispatched = Append(@, item),
                       !.sinkQueue = IF throws THEN @ ELSE Append(@, item)]

\* Whether processQueue(m, throws) reaches synthesis.speak() and it raises.
dispatchThrows(m, throws) ==
    throws /\ ~(m.isSpeaking \/ Len(m.queue) = 0 \/ ~synthesis)

\* utterance.onend / utterance.onerror.
utteranceCallback(m, throws) ==
    processQueue([m EXCEPT !.isSpeaking = FALSE], throws)

\* stopBody without this.queue = [].
stopBody_keepsQueue(m) ==
    [synthesisCancel(m) EXCEPT !.isSpeaking = FALSE]

\* stop(), inside if (this.synthesis).
stopBody(m) ==
    [synthesisCancel(m) EXCEPT !.queue = <<>>, !.isSpeaking = FALSE]

NoItem == [id |-> 0, priority |-> "none"]

SetManager(m) ==
    /\ queue' = m.queue
    /\ isSpeaking' = m.isSpeaking
    /\ sinkQueue' = m.sinkQueue
    /\ cancelled' = m.cancelled
    /\ dispatched' = m.dispatched

Last(op, item, threw) ==
    [op |-> op, item |-> item, threw |-> threw,
     preQueue |-> queue, preSpeaking |-> isSpeaking, preSink |-> sinkQueue,
     preCancelled |-> cancelled]

SpeechInit ==
    /\ synthesis \in BOOLEAN
    /\ queue = <<>>
    /\ isSpeaking = FALSE
    /\ sinkQueue = <<>>
    /\ cancelled = {}
    /\ dispatched = <<>>
    /\ nextId = 1
    /\ last = [op |-> "init", item |-> NoItem, threw |-> FALSE,
               preQueue |-> <<>>, preSpeaking |-> FALSE, preSink |-> <<>>,
               preCancelled |-> {}]
    /\ stopMark = -1

speak(priority) ==
    /\ nextId <= MaxSpeak
    /\ UNCHANGED notSpeech
    /\ IF ~synthesis THEN UNCHANGED speechVars
       ELSE \E throws \in BOOLEAN :
              LET item == SpeechQueueItem(nextId, priority)
                  m1   == speakBranches(Manager, item)
              IN  /\ SetManager(processQueue(m1, throws))
                  /\ last' = Last("speak", item, dispatchThrows(m1, throws))
                  /\ nextId' = nextId + 1
                  /\ stopMark' = -1
                  /\ UNCHANGED synthesis

stop ==
    /\ UNCHANGED notSpeech
    /\ IF ~synthesis THEN UNCHANGED speechVars
       ELSE /\ SetManager(stopBody(Manager))
            /\ last' = Last("stop", NoItem, FALSE)
            /\ stopMark' = Len(dispatched)
            /\ UNCHANGED <<synthesis, nextId>>

\* The utterance being played ends: the sink calls utterance.onend.
onend ==
    /\ sinkQueue # <<>>
    /\ \E throws \in BOOLEAN :
         LET m0 == [Manager EXCEPT !.sinkQueue = Tail(sinkQueue)]
             m1 == [m0 EXCEPT !.isSpeaking = FALSE]
         IN  /\ SetManager(utteranceCallback(m0, throws))
             /\ last' = Last("onend", Head(sinkQueue), dispatchThrows(m1, throws))
    /\ UNCHANGED <<synthesis, nextId, stopMark>>
    /\ UNCHANGED notSpeech

\* The utterance being played fails: the sink calls utterance.onerror.
onerror ==
    /\ sinkQueue # <<>>
    /\ \E throws \in BOOLEAN :
         LET m0 == [Manager EXCEPT !.sinkQueue = Tail(sinkQueue)]
             m1 == [m0 EXCEPT !.isSpeaking = FALSE]
         IN  /\ SetManager(utteranceCallback(m0, throws))
             /\ last' = Last("onerror", Head(sinkQueue), dispatchThrows(m1, throws))
    /\ UNCHANGED <<synthesis, nextId, stopMark>>
    /\ UNCHANGED notSpeech

\* The end/error event of an utterance removed by synthesis.cancel() is
\* delivered late: the same handler runs.
oncancelled ==
    /\ \E u \in cancelled, throws \in BOOLEAN :
         LET m0 == [Manager EXCEPT !.cancelled = cancelled \ {u}]
             m1 == [m0 EXCEPT !.isSpeaking = FALSE]
         IN  /\ SetManager(utteranceCallback(m0, throws))
             /\ last' = Last("oncancelled", u, dispatchThrows(m1, throws))
    /\ UNCHANGED <<synthesis, nextId, stopMark>>
    /\ UNCHANGED notSpeech

SpeechNext ==
    \/ \E priority \in SpeechPriority : speak(priority)
    \/ stop
    \/ onend
    \/ onerror
    \/ oncancelled

(***************************************************************************)
(* The same methods under a steady load: items are told apart by an id     *)
(* that is free again once the item has left the manager and the sink, the *)
(* call synthesis.speak() does not raise, events of cancelled utterances   *)
(* are not delivered, and the history of the run is not kept.              *)
(***************************************************************************)

\* Items that can be in the manager and the sink at one time.
MaxItems == 4

\* The ids no item in the queue or the sink carries.
FreeIds ==
    {id \in 1..MaxItems :
        /\ \A i \in 1..Len(queue) : queue[i].id # id
        /\ \A i \in 1..Len(sinkQueue) : sinkQueue[i].id # id}

SetManagerSteady(m) ==
    /\ queue' = m.queue
    /\ isSpeaking' = m.isSpeaking
    /\ sinkQueue' = m.sinkQueue
    /\ UNCHANGED <<synthesis, cancelled, dispatched, nextId, last, stopMark>>

speakSteady(priority) ==
    /\ \E id \in FreeIds :
          LET item == SpeechQueueItem(id, priority)
          IN  SetManagerSteady(processQueue(speakBranches(Manager, item), FALSE))
    /\ UNCHANGED notSpeech

stopSteady ==
    /\ SetManagerSteady(stopBody(Manager))
    /\ UNCHANGED notSpeech

onendSteady ==
    /\ sinkQueue # <<>>
    /\ SetManagerSteady(utteranceCallback(
                           [Manager EXCEPT !.sinkQueue = Tail(sinkQueue)], FALSE))
    /\ UNCHANGED notSpeech

onerrorSteady ==
    /\ sinkQueue # <<>>
    /\ SetManagerSteady(utteranceCallback(
                           [Manager EXCEPT !.sinkQueue = Tail(sinkQueue)], FALSE))
    /\ UNCHANGED notSpeech

SteadyNext ==
    \/ \E priority \in SpeechPriority : speakSteady(priority)
    \/ stopSteady
    \/ onendSteady
    \/ onerrorSteady

\* Every utterance the sink plays ends or fails.
SteadyFairness == WF_speechVars(onendSteady \/ onerrorSteady)

(***************************************************************************)
(* The same methods when the callers fall silent: after their last call    *)
(* only the callbacks of the sink run.                                     *)
(***************************************************************************)

\* The callers have made their last speak() or stop() call.
Quiet == nextId > MaxSpeak

stopBeforeQuiet ==
    /\ ~Quiet
    /\ stop

\* No further call arrives from here on.
lastCallMade ==
    /\ ~Quiet
    /\ nextId' = MaxSpeak + 1
    /\ UNCHANGED <<synthesis, queue, isSpeaking, sinkQueue, cancelled,
                   dispatched, last, stopMark>>
    /\ UNCHANGED notSpeech

DrainNext ==
    \/ \E priority \in SpeechPriority : speak(priority)
    \/ stopBeforeQuiet
    \/ lastCallMade
    \/ onend
    \/ onerror
    \/ oncancelled

\* Every utterance the sink holds or has dropped reports its end or error.
DrainFairness == WF_speechVars(onend \/ onerror \/ oncancelled)


(***************************************************************************)
(* ModeManager (src/unnamed/part_002).                                      *)
(***************************************************************************)


\* Transitions recorded in modeHistory before the model stops calling.
MaxHistory == 4
\* Largest value of the clock.
MaxTime == 1

AppMode == {"idle", "detecting", "reading", "safe-walk", "find-object",
            "medicine", "shopping", "navigation", "emergency"}

\* The modes the calls are made with: idle, two modes of equal priority,
\* one of higher priority, and emergency.
TargetModes == {"idle", "detecting", "reading", "safe-walk", "emergency"}

\* The callbacks that may subscribe.
Listeners == {"ui", "other"}

\* modePriority with emergency given priority 1.
modePriority_emergencyLow(mode) ==
    CASE mode = "idle"        -> 0
      [] mode = "detecting"   -> 2
      [] mode = "reading"     -> 2
      [] mode = "safe-walk"   -> 3
      [] mode = "find-object" -> 2
      [] mode = "medicine"    -> 2
      [] mode = "shopping"    -> 2
      [] mode = "navigation"  -> 3
      [] mode = "emergency"   -> 1

\* MODE_CONFIGS[mode].priority.
modePriority(mode) ==
    CASE mode = "idle"        -> 0
      [] mode = "detecting"   -> 2
      [] mode = "reading"     -> 2
      [] mode = "safe-walk"   -> 3
      [] mode = "find-object" -> 2
      [] mode = "medicine"    -> 2
      [] mode = "shopping"    -> 2
      [] mode = "navigation"  -> 3
      [] mode = "emergency"   -> 10

\* MODE_CONFIGS[mode].name.
modeName(mode) ==
    CASE mode = "idle"        -> "Standby"
      [] mode = "detecting"   -> "Object Detection"
      [] mode = "reading"     -> "Text Reading"
      [] mode = "safe-walk"   -> "Safe Walk"
      [] mode = "find-object" -> "Find Object"
      [] mode = "medicine"    -> "Medicine Reader"
      [] mode = "shopping"    -> "Shopping Assistant"
      [] mode = "navigation"  -> "Navigation"
      [] mode = "emergency"   -> "Emergency"

\* MODE_CONFIGS: the announcement, description and features of a config
\* are functions of its name and are not read by the manager.
MODE_CONFIGS(mode) == [name |-> modeName(mode), priority |-> modePriority(mode)]

\* The ModeManager fields setMode() writes.
Modes ==
    [currentMode |-> currentMode, previousMode |-> previousMode,
     modeHistory |-> modeHistory]

\* gateRejects with the comparison turned round.
gateRejects_flipped(current, newMode) ==
    current # "idle" /\ MODE_CONFIGS(newMode).priority > MODE_CONFIGS(current).priority

\* gateRejects with === 'idle' in place of !== 'idle'.
gateRejects_idleOnly(current, newMode) ==
    current = "idle" /\ MODE_CONFIGS(newMode).priority < MODE_CONFIGS(current).priority

\* setMode without the priority gate.
gateRejects_never(current, newMode) == FALSE

\* setMode(): the priority gate.
gateRejects(current, newMode) ==
    current # "idle" /\ MODE_CONFIGS(newMode).priority < MODE_CONFIGS(current).priority

\* notifyListeners visiting the subscribers last to first.
notifyListeners_reversed(ls, newMode, newConfig) ==
    [i \in 1..Len(ls) |->
        [listener |-> ls[Len(ls) + 1 - i], mode |-> newMode, config |-> newConfig]]

\* this.listeners.forEach(listener => listener(newMode, newConfig)): the
\* calls made, in order.
notifyListeners(ls, newMode, newConfig) ==
    [i \in 1..Len(ls) |->
        [listener |-> ls[i], mode |-> newMode, config |-> newConfig]]

\* setMode without the early return on newMode === this.currentMode.
setModeResult_noEarlyReturn(mm, newMode, t) ==
    IF gateRejects(mm.currentMode, newMode)
    THEN [mm |-> mm, ret |-> MODE_CONFIGS(mm.currentMode), calls |-> <<>>]
    ELSE [mm |-> [currentMode  |-> newMode,
                  previousMode |-> mm.currentMode,
                  modeHistory  |-> Append(mm.modeHistory,
                                     [from |-> mm.currentMode, to |-> newMode,
                                      timestamp |-> t])],
          ret |-> MODE_CONFIGS(newMode),
          calls |-> notifyListeners(listeners, newMode, MODE_CONFIGS(newMode))]

\* setMode(newMode) at clock value t: the new fields, the returned config
\* and the calls made to the subscribers before it returns.
setModeResult(mm, newMode, t) ==
    IF newMode = mm.currentMode
    THEN [mm |-> mm, ret |-> MODE_CONFIGS(newMode), calls |-> <<>>]
    ELSE IF gateRejects(mm.currentMode, newMode)
    THEN [mm |-> mm, ret |-> MODE_CONFIGS(mm.currentMode), calls |-> <<>>]
    ELSE [mm |-> [currentMode  |-> newMode,
                  previousMode |-> mm.currentMode,
                  modeHistory  |-> Append(mm.modeHistory,
                                     [from |-> mm.currentMode, to |-> newMode,
                                      timestamp |-> t])],
          ret |-> MODE_CONFIGS(newMode),
          calls |-> notifyListeners(listeners, newMode, MODE_CONFIGS(newMode))]

\* goBack(): the mode handed to setMode().
goBackTarget(mm) ==
    IF mm.previousMode # mm.currentMode THEN mm.previousMode ELSE "idle"

\* canTransitionTo refusing every target in emergency.
canTransitionTo_refusesIdle(targetMode) ==
    ~(currentMode = "emergency")

\* canTransitionTo(targetMode).
canTransitionTo(targetMode) ==
    ~(currentMode = "emergency" /\ targetMode # "idle")

SetModes(mm) ==
    /\ currentMode' = mm.currentMode
    /\ previousMode' = mm.previousMode
    /\ modeHistory' = mm.modeHistory

\* The last call made, what it returned and the fields it started from.
LastMode(op, target, ret, calls, allowed) ==
    [op |-> op, target |-> target, ret |-> ret, calls |-> calls,
     allowed |-> allowed,
     preCurrent |-> currentMode, prePrevious |-> previousMode,
     preHistory |-> modeHistory]

\* The record of a step that calls none of setMode, goBack, canTransitionTo.
NoModeCall(op) ==
    LastMode(op, currentMode, MODE_CONFIGS(currentMode), <<>>, TRUE)

ModeInit ==
    /\ currentMode = "idle"
    /\ previousMode = "idle"
    /\ modeHistory = <<>>
    /\ listeners = <<>>
    /\ now = 0
    /\ lastMode = [op |-> "init", target |-> "idle", ret |-> MODE_CONFIGS("idle"),
                   calls |-> <<>>, allowed |-> TRUE,
                   preCurrent |-> "idle", prePrevious |-> "idle",
                   preHistory |-> <<>>]

setMode(newMode) ==
    /\ Len(modeHistory) < MaxHistory
    /\ LET r == setModeResult(Modes, newMode, now)
       IN  /\ SetModes(r.mm)
           /\ lastMode' = LastMode("setMode", newMode, r.ret, r.calls, TRUE)
    /\ UNCHANGED <<listeners, now>>
    /\ UNCHANGED notMode

goBack ==
    /\ Len(modeHistory) < MaxHistory
    /\ LET target == goBackTarget(Modes)
           r == setModeResult(Modes, target, now)
       IN  /\ SetModes(r.mm)
           /\ lastMode' = LastMode("goBack", target, r.ret, r.calls, TRUE)
    /\ UNCHANGED <<listeners, now>>
    /\ UNCHANGED notMode

\* A call of canTransitionTo(targetMode); its result is lastMode.allowed.
askCanTransitionTo(targetMode) ==
    /\ lastMode' = LastMode("canTransitionTo", targetMode,
                            MODE_CONFIGS(currentMode), <<>>,
                            canTransitionTo(targetMode))
    /\ UNCHANGED <<currentMode, previousMode, modeHistory, listeners, now>>
    /\ UNCHANGED notMode

\* Set.prototype.add: a callback already in the Set keeps its place.
subscribe(listener) ==
    /\ listeners' = IF listener \in Range(listeners) THEN listeners
                    ELSE Append(listeners, listener)
    /\ lastMode' = NoModeCall("subscribe")
    /\ UNCHANGED <<currentMode, previousMode, modeHistory, now>>
    /\ UNCHANGED notMode

\* The function subscribe() returns: Set.prototype.delete.
unsubscribe(listener) ==
    /\ listeners' = SelectSeq(listeners, LAMBDA l : l # listener)
    /\ lastMode' = NoModeCall("unsubscribe")
    /\ UNCHANGED <<currentMode, previousMode, modeHistory, now>>
    /\ UNCHANGED notMode

\* Time passes.
tick ==
    /\ now < MaxTime
    /\ now' = now + 1
    /\ lastMode' = NoModeCall("tick")
    /\ UNCHANGED <<currentMode, previousMode, modeHistory, listeners>>
    /\ UNCHANGED notMode

ModeNext ==
    \/ \E newMode \in TargetModes : setMode(newMode)
    \/ goBack
    \/ \E targetMode \in TargetModes : askCanTransitionTo(targetMode)
    \/ \E listener \in Listeners : subscribe(listener)
    \/ \E listener \in Listeners : unsubscribe(listener)
    \/ tick

(***************************************************************************)
(* Detection-announcement effect (BlindCompanion.tsx 263-293,              *)
(* src/unnamed/part_003 185-217).                                          *)
(***************************************************************************)

\* Steps of 500 ms the clock of the effect makes.
MaxCdSteps == 13

\* The two components that carry the effect.
Components == {"BlindCompanion", "AccessibilityAssistant"}

\* The modes the component state `mode` is drawn from.
UiModes == {"idle", "detecting", "safe-walk"}

\* Object classes, one of each tier (detection-utils).
ObjectClasses == {"car", "person", "door", "chair"}

Directions == {"left", "right"}

\* getPriority(objectClass), on ObjectClasses.
getPriority(objectClass) ==
    CASE objectClass = "car"    -> "critical"
      [] objectClass = "person" -> "high"
      [] objectClass = "door"   -> "normal"
      [] objectClass = "chair"  -> "low"

\* The fields of a ProcessedDetection the effect reads; the announcement
\* text is a function of them.
ProcessedDetection(object, direction) ==
    [object |-> object, direction |-> direction,
     priority |-> getPriority(object)]

\* mostImportant === null.
NoDetection == [object |-> "none", direction |-> "none", priority |-> "none"]

\* `${mostImportant.object}-${mostImportant.direction}`.
cooldownKey(d) == <<d.object, d.direction>>

CooldownKeys == ObjectClasses \X Directions

\* cooldowns with every tier 500 ms shorter.
cooldowns_shorter(priority) ==
    CASE priority = "critical" -> 1000
      [] priority = "high"     -> 2000
      [] priority = "normal"   -> 3500
      [] priority = "low"      -> 5500

\* The cooldowns table.
cooldowns(priority) ==
    CASE priority = "critical" -> 1500
      [] priority = "high"     -> 2500
      [] priority = "normal"   -> 4000
      [] priority = "low"      -> 6000

\* isDetectingMode: BlindCompanion announces in detecting and safe-walk,
\* AccessibilityAssistant in detecting only.
isDetectingMode(comp, mode) ==
    IF comp = "BlindCompanion" THEN mode \in {"detecting", "safe-walk"}
    ELSE mode = "detecting"

\* announcementEffect with a Map that is emptied before the new timestamp
\* is stored.
announcementEffect_clearsTable(comp, mode, mostImportant, table, t) ==
    IF ~isDetectingMode(comp, mode) \/ mostImportant = NoDetection
    THEN [table |-> table, spoke |-> <<>>]
    ELSE LET key == cooldownKey(mostImportant)
             lastTime == table[key]
             cooldown == cooldowns(mostImportant.priority)
         IN  IF t - lastTime > cooldown
             THEN [table |-> [k \in DOMAIN table |-> IF k = key THEN t ELSE 0],
                   spoke |-> <<[key |-> key,
                                priority |-> mostImportant.priority]>>]
             ELSE [table |-> table, spoke |-> <<>>]

\* One run of the effect at clock value t: the Map afterwards and the
\* speak() calls made.
announcementEffect(comp, mode, mostImportant, table, t) ==
    IF ~isDetectingMode(comp, mode) \/ mostImportant = NoDetection
    THEN [table |-> table, spoke |-> <<>>]
    ELSE LET key == cooldownKey(mostImportant)
             lastTime == table[key]
             cooldown == cooldowns(mostImportant.priority)
         IN  IF t - lastTime > cooldown
             THEN [table |-> [table EXCEPT ![key] = t],
                   spoke |-> <<[key |-> key,
                                priority |-> mostImportant.priority]>>]
             ELSE [table |-> table, spoke |-> <<>>]

\* No run of the effect at the current clock value.
NoAnnounce == [ran |-> FALSE, mode |-> "idle", detection |-> NoDetection,
               spoke |-> <<>>, lastSpokenAt |-> 0]

\* The detections the camera shows in one run: one object on both sides,
\* or two objects of different tiers.
Scenes ==
    {{ProcessedDetection("car", "left"), ProcessedDetection("car", "right")},
     {ProcessedDetection("person", "left"), ProcessedDetection("chair", "left")},
     {ProcessedDetection("door", "right"), ProcessedDetection("car", "right")},
     {ProcessedDetection("chair", "left"), ProcessedDetection("chair", "right")}}

CooldownInit ==
    /\ component \in Components
    /\ announcementCooldown = [k \in CooldownKeys |-> 0]
    /\ cdNow = 10000
    /\ spokenAt = [k \in CooldownKeys |-> 0]
    /\ lastAnnounce = NoAnnounce
    /\ scene \in Scenes

\* The effect runs: mode or mostImportant has changed.
detectionEffect(mode, mostImportant) ==
    /\ LET r == announcementEffect(component, mode, mostImportant,
                                   announcementCooldown, cdNow)
       IN  /\ announcementCooldown' = r.table
           /\ spokenAt' = [k \in CooldownKeys |->
                              IF \E i \in 1..Len(r.spoke) : r.spoke[i].key = k
                              THEN cdNow ELSE spokenAt[k]]
           /\ lastAnnounce' =
                 [ran |-> TRUE, mode |-> mode, detection |-> mostImportant,
                  spoke |-> r.spoke,
                  lastSpokenAt |-> IF mostImportant = NoDetection THEN 0
                                   ELSE spokenAt[cooldownKey(mostImportant)]]
    /\ UNCHANGED <<component, cdNow, scene>>
    /\ UNCHANGED notCooldown

\* 500 ms pass.
cdTick ==
    /\ cdNow < 10000 + 500 * MaxCdSteps
    /\ cdNow' = cdNow + 500
    /\ lastAnnounce' = NoAnnounce
    /\ UNCHANGED <<component, announcementCooldown, spokenAt, scene>>
    /\ UNCHANGED notCooldown

CooldownNext ==
    \/ \E mode \in UiModes, mostImportant \in scene \cup {NoDetection} :
          detectionEffect(mode, mostImportant)
    \/ cdTick

(***************************************************************************)
(* useContinuousFeedback (useContinuousFeedback.ts 21-98), as called by    *)
(* BlindCompanion (BlindCompanion.tsx 143-150).                            *)
(***************************************************************************)

\* Steps of 500 ms the clock of the hook makes.
MaxHbSteps == 13

\* intervalMs, as BlindCompanion passes it.
intervalMs == 5000

PATH_STATUS_MESSAGES ==
    <<"Path clear.", "Area looks safe.", "No obstacles detected.",
      "Clear ahead.", "Way is clear.">>

\* The detection lists the hook is rendered with: the tiers of the
\* detections, in list order.
DetectionLists ==
    {<<>>, <<"low">>, <<"normal", "low">>, <<"normal", "high">>, <<"critical">>}

\* isNavigating with currentNavigationStep ("null" for null).
NavigationProps ==
    {[isNavigating |-> FALSE, currentNavigationStep |-> "null"],
     [isNavigating |-> TRUE, currentNavigationStep |-> "Turn left."]}

\* The guard of generateFeedback with a window of 2500 ms.
tooClose_shorter(t, lastFeedback) == t - lastFeedback < 2500

\* generateFeedback: now - lastFeedbackRef.current < 3000.
tooClose(t, lastFeedback) == t - lastFeedback < 3000

\* feedbackSpeech testing for obstacles before danger.
feedbackSpeech_awarenessFirst(dets, phrase) ==
    IF Len(dets) > 0
    THEN [text |-> IF Len(dets) = 1 THEN "One object nearby"
                   ELSE "objects nearby. Proceed with caution.",
          priority |-> "low"]
    ELSE [text |-> PATH_STATUS_MESSAGES[phrase], priority |-> "low"]

\* generateFeedback: the speak() call chosen from the detections; phrase is
\* the index Math.random() picks.
feedbackSpeech(dets, phrase) ==
    IF \E i \in 1..Len(dets) : dets[i] \in {"critical", "high"}
    THEN [text |-> "Warning", priority |-> "high"]
    ELSE IF Len(dets) > 0
    THEN [text |-> IF Len(dets) = 1 THEN "One object nearby"
                   ELSE "objects nearby. Proceed with caution.",
          priority |-> "low"]
    ELSE [text |-> PATH_STATUS_MESSAGES[phrase], priority |-> "low"]

\* generateFeedback: the follow-up timeouts it sets at clock value t.
navigationContext(nav, t) ==
    IF nav.isNavigating /\ nav.currentNavigationStep # "null"
    THEN {[due |-> t + 1500, step |-> nav.currentNavigationStep]}
    ELSE {}

\* A step of the hook that is neither a run of generateFeedback nor a timer.
NoHb == [op |-> "none", passed |-> FALSE, spoke |-> <<>>, armed |-> {},
         prevAnnouncedAt |-> 0]

\* generateFeedback() run by op at the current clock value.
generateFeedback(op, phrase) ==
    IF tooClose(hbNow, lastFeedbackRef)
    THEN /\ lastHb' = [NoHb EXCEPT !.op = op]
         /\ UNCHANGED <<lastFeedbackRef, followUps, announcedAt>>
    ELSE /\ lastFeedbackRef' = hbNow
         /\ followUps' = followUps \cup navigationContext(navigation, hbNow)
         /\ announcedAt' = hbNow
         /\ lastHb' = [op |-> op, passed |-> TRUE,
                       spoke |-> <<feedbackSpeech(detections, phrase)>>,
                       armed |-> navigationContext(navigation, hbNow),
                       prevAnnouncedAt |-> announcedAt]

\* The effect runs again after a render that changed one of its
\* dependencies: the cleanup of the last run, then the body.
rerunEffect(nowEnabled) ==
    /\ intervalDue' = IF nowEnabled THEN hbNow + intervalMs ELSE 0
    /\ initialDue' = IF nowEnabled THEN hbNow + 500 ELSE 0

HeartbeatInit ==
    /\ enabled = FALSE
    /\ detections = <<>>
    /\ navigation = [isNavigating |-> FALSE, currentNavigationStep |-> "null"]
    /\ lastFeedbackRef = 0
    /\ intervalDue = 0
    /\ initialDue = 0
    /\ followUps = {}
    /\ hbNow = 10000
    /\ tickDueBy = 0
    /\ announcedAt = 0
    /\ lastHb = NoHb

\* mode enters or leaves safe-walk: enabled changes.
setEnabled(b) ==
    /\ b # enabled
    /\ enabled' = b
    /\ rerunEffect(b)
    /\ tickDueBy' = IF b THEN hbNow + intervalMs ELSE 0
    /\ lastHb' = [NoHb EXCEPT !.op = "setEnabled"]
    /\ UNCHANGED <<detections, navigation, lastFeedbackRef, followUps, hbNow,
                   announcedAt>>
    /\ UNCHANGED notHeartbeat

\* The detection loop has called setDetections(processed): a new array,
\* hence a new generateFeedback and a new run of the effect.
setDetections(dets) ==
    /\ detections' = dets
    /\ rerunEffect(enabled)
    /\ lastHb' = [NoHb EXCEPT !.op = "setDetections"]
    /\ UNCHANGED <<enabled, navigation, lastFeedbackRef, followUps, hbNow,
                   tickDueBy, announcedAt>>
    /\ UNCHANGED notHeartbeat

\* isNavigating or currentNavigationStep has changed.
setNavigation(nav) ==
    /\ nav # navigation
    /\ navigation' = nav
    /\ rerunEffect(enabled)
    /\ tickDueBy' = IF enabled THEN hbNow + intervalMs ELSE 0
    /\ lastHb' = [NoHb EXCEPT !.op = "setNavigation"]
    /\ UNCHANGED <<enabled, detections, lastFeedbackRef, followUps, hbNow,
                   announcedAt>>
    /\ UNCHANGED notHeartbeat

\* The interval fires: a heartbeat tick.
intervalFires(phrase) ==
    /\ intervalDue # 0 /\ intervalDue <= hbNow
    /\ generateFeedback("interval", phrase)
    /\ intervalDue' = intervalDue + intervalMs
    /\ tickDueBy' = hbNow + intervalMs
    /\ UNCHANGED <<enabled, detections, navigation, initialDue, hbNow>>
    /\ UNCHANGED notHeartbeat

\* triggerFeedback(): generateFeedback called out of schedule.
triggerFeedback(phrase) ==
    /\ generateFeedback("triggerFeedback", phrase)
    /\ UNCHANGED <<enabled, detections, navigation, intervalDue, initialDue,
                   hbNow, tickDueBy>>
    /\ UNCHANGED notHeartbeat

\* The initialTimeout fires.
initialTimeoutFires ==
    /\ initialDue # 0 /\ initialDue <= hbNow
    /\ initialDue' = 0
    /\ lastHb' = [NoHb EXCEPT !.op = "initialTimeout",
                    !.spoke = <<[text |-> "Safe walk mode active. I will guide you.",
                                 priority |-> "normal"]>>]
    /\ UNCHANGED <<enabled, detections, navigation, lastFeedbackRef,
                   intervalDue, followUps, hbNow, tickDueBy, announcedAt>>
    /\ UNCHANGED notHeartbeat

\* A timeout set by generateFeedback fires.
followUpFires ==
    /\ \E f \in followUps :
          /\ f.due <= hbNow
          /\ followUps' = followUps \ {f}
          /\ lastHb' = [NoHb EXCEPT !.op = "followUp",
                          !.spoke = <<[text |-> f.step, priority |-> "normal"]>>]
    /\ UNCHANGED <<enabled, detections, navigation, lastFeedbackRef,
                   intervalDue, initialDue, hbNow, tickDueBy, announcedAt>>
    /\ UNCHANGED notHeartbeat

\* 500 ms pass; no timer is overdue.
hbTick ==
    /\ hbNow < 10000 + 500 * MaxHbSteps
    /\ intervalDue = 0 \/ hbNow < intervalDue
    /\ initialDue = 0 \/ hbNow < initialDue
    /\ \A f \in followUps : hbNow < f.due
    /\ hbNow' = hbNow + 500
    /\ lastHb' = NoHb
    /\ UNCHANGED <<enabled, detections, navigation, lastFeedbackRef,
                   intervalDue, initialDue, followUps, tickDueBy, announcedAt>>
    /\ UNCHANGED notHeartbeat

HeartbeatNext ==
    \/ \E b \in BOOLEAN : setEnabled(b)
    \/ \E dets \in DetectionLists : setDetections(dets)
    \/ \E nav \in NavigationProps : setNavigation(nav)
    \/ \E phrase \in 1..Len(PATH_STATUS_MESSAGES) : intervalFires(phrase)
    \/ \E phrase \in 1..Len(PATH_STATUS_MESSAGES) : triggerFeedback(phrase)
    \/ initialTimeoutFires
    \/ followUpFires
    \/ hbTick

(***************************************************************************)
(* BlindCompanion (BlindCompanion.tsx): the action handlers 326-400, the   *)
(* mode subscription 199-206 and the fall alarm 86-103.                    *)
(***************************************************************************)

\* Steps of 5000 ms the clock of the component makes.
MaxAppSteps == 3

\* The values a render of the component has for the state its closures
\* read.
Render(m, fall) == [mode |-> m, fallDetected |-> fall]

\* The first render: useState('idle'), fallDetected: false. The effect that
\* runs once on mount calls the startFallDetection of this render, so the
\* devicemotion listener is the handleMotion of this render, with its
\* onFallDetected.
MountRender == Render("idle", FALSE)

\* The subscription effect has run.
Mounted == "ui" \in Range(listeners)

\* The last handler run.
LastApp(op) == [op |-> op, preMode |-> uiMode, preCurrent |-> currentMode]

\* modeManager.setMode(newMode) called by a handler: the manager's fields,
\* and the React state the subscribed callback sets when it is called.
appSetMode(newMode) ==
    LET r == setModeResult(Modes, newMode, appNow)
    IN  /\ SetModes(r.mm)
        /\ uiMode' = IF \E i \in 1..Len(r.calls) : r.calls[i].listener = "ui"
                     THEN newMode ELSE uiMode

AppInit ==
    /\ uiMode = "idle"
    /\ fallDetected = FALSE
    /\ fallTimers = {}
    /\ appNow = 10000
    /\ lastApp = [op |-> "init", preMode |-> "idle", preCurrent |-> "idle"]

\* What a handler that only calls the mode manager leaves alone.
HandlerFrame ==
    /\ UNCHANGED <<fallDetected, fallTimers, appNow>>
    /\ UNCHANGED notApp

\* A handler that toggles its own mode (handleDetect, handleSafeWalk,
\* handleFindObject); ready: videoRef.current && isModelLoaded.
toggleMode(op, own, ready) ==
    /\ lastApp' = LastApp(op)
    /\ IF uiMode = own THEN appSetMode("idle")
       ELSE IF ready THEN appSetMode(own)
       ELSE UNCHANGED <<currentMode, previousMode, modeHistory, uiMode>>
    /\ HandlerFrame

handleDetect(ready) ==
    /\ Mounted
    /\ Len(modeHistory) < MaxHistory
    /\ toggleMode("handleDetect", "detecting", ready)

handleSafeWalk(ready) ==
    /\ Mounted
    /\ Len(modeHistory) < MaxHistory
    /\ toggleMode("handleSafeWalk", "safe-walk", ready)

handleFindObject(ready) ==
    /\ Mounted
    /\ Len(modeHistory) < MaxHistory
    /\ toggleMode("handleFindObject", "find-object", ready)

handleStop ==
    /\ Mounted
    /\ Len(modeHistory) < MaxHistory
    /\ lastApp' = LastApp("handleStop")
    /\ appSetMode("idle")
    /\ HandlerFrame

\* handleEmergency as the render r defined it.
handleEmergencyOf(r) ==
    IF r.mode = "emergency"
    THEN /\ appSetMode("idle")
         /\ fallDetected' = FALSE
    ELSE /\ appSetMode("emergency")
         /\ UNCHANGED fallDetected

\* The emergency button or gesture: handleEmergency of the current render.
handleEmergency ==
    /\ Mounted
    /\ Len(modeHistory) < MaxHistory
    /\ lastApp' = LastApp("handleEmergency")
    /\ handleEmergencyOf(Render(uiMode, fallDetected))
    /\ UNCHANGED <<fallTimers, appNow>>
    /\ UNCHANGED notApp

\* handleMotion confirms a fall: setState(fallDetected: true), then the
\* onFallDetected of the render the listener was registered in, which sets
\* the 10 s timeout.
fallConfirmed ==
    /\ Mounted
    /\ fallDetected' = TRUE
    /\ fallTimers' = fallTimers \cup {[due |-> appNow + 10000, render |-> MountRender]}
    /\ lastApp' = LastApp("fallConfirmed")
    /\ UNCHANGED <<currentMode, previousMode, modeHistory, uiMode, appNow>>
    /\ UNCHANGED notApp

\* The timeout of onFallDetected fires: if (fallDetected) handleEmergency(),
\* both as the render of the callback has them.
fallTimerFires ==
    /\ Len(modeHistory) < MaxHistory
    /\ \E f \in fallTimers :
          /\ f.due <= appNow
          /\ fallTimers' = fallTimers \ {f}
          /\ IF f.render.fallDetected THEN handleEmergencyOf(f.render)
             ELSE UNCHANGED <<currentMode, previousMode, modeHistory, uiMode,
                              fallDetected>>
    /\ lastApp' = LastApp("fallTimer")
    /\ UNCHANGED appNow
    /\ UNCHANGED notApp

\* handleRead up to its await: nothing when the render is in reading mode,
\* else modeManager.setMode('reading') and the recognition starts.
handleRead ==
    /\ Mounted
    /\ Len(modeHistory) < MaxHistory
    /\ lastApp' = LastApp("handleRead")
    /\ IF uiMode = "reading"
       THEN UNCHANGED <<currentMode, previousMode, modeHistory, uiMode>>
       ELSE appSetMode("reading")
    /\ HandlerFrame

\* recognizeText rejects: the catch of handleRead calls
\* modeManager.setMode('idle').
recognizeTextFails ==
    /\ Mounted
    /\ Len(modeHistory) < MaxHistory
    /\ uiMode = "reading"
    /\ lastApp' = LastApp("recognizeTextFails")
    /\ appSetMode("idle")
    /\ HandlerFrame

\* A state setter of React: the mode manager is not called.
reactSetMode(newMode) ==
    /\ uiMode' = newMode
    /\ UNCHANGED <<currentMode, previousMode, modeHistory>>

\* The OCR effect: a text has arrived while the render is in reading mode.
ocrResult ==
    /\ Mounted
    /\ uiMode = "reading"
    /\ lastApp' = LastApp("ocrResult")
    /\ reactSetMode("idle")
    /\ HandlerFrame

\* The find-object effect: a detection matches the target while the render
\* is in find-object mode.
findObjectHit ==
    /\ Mounted
    /\ uiMode = "find-object"
    /\ lastApp' = LastApp("findObjectHit")
    /\ reactSetMode("idle")
    /\ HandlerFrame

\* The onArrival callback handed to useNavigation.
onArrival ==
    /\ Mounted
    /\ lastApp' = LastApp("onArrival")
    /\ reactSetMode("idle")
    /\ HandlerFrame

\* 5000 ms pass; no timeout is overdue.
appTick ==
    /\ appNow < 10000 + 5000 * MaxAppSteps
    /\ \A f \in fallTimers : appNow < f.due
    /\ appNow' = appNow + 5000
    /\ lastApp' = LastApp("tick")
    /\ UNCHANGED <<currentMode, previousMode, modeHistory, uiMode,
                   fallDetected, fallTimers>>
    /\ UNCHANGED notApp

AppNext ==
    \/ \E listener \in {"ui"} : subscribe(listener)
    \/ \E ready \in BOOLEAN : handleDetect(ready)
    \/ \E ready \in BOOLEAN : handleSafeWalk(ready)
    \/ \E ready \in BOOLEAN : handleFindObject(ready)
    \/ handleStop
    \/ handleEmergency
    \/ fallConfirmed
    \/ fallTimerFires
    \/ appTick

\* The handlers and effects of BlindCompanion that set the mode, without
\* the clock and the fall alarm.
UiNext ==
    \/ \E listener \in {"ui"} : subscribe(listener)
    \/ \E ready \in BOOLEAN : handleDetect(ready)
    \/ \E ready \in BOOLEAN : handleSafeWalk(ready)
    \/ \E ready \in BOOLEAN : handleFindObject(ready)
    \/ handleRead
    \/ recognizeTextFails
    \/ handleStop
    \/ handleEmergency
    \/ ocrResult
    \/ findObjectHit
    \/ onArrival

(***************************************************************************)
(* useWakeWord (src/unnamed/part_005), as called by BlindCompanion         *)
(* (BlindCompanion.tsx 105-118).                                           *)
(***************************************************************************)

\* Steps of 2500 ms the clock of the hook makes.
MaxWakeSteps == 6

\* The transcripts recognition delivers: one that includes the wake word
\* and one that does not.
Transcripts == {"hey assist", "stop"}

\* transcript.includes(wakeWord.toLowerCase()).
includesWakeWord(transcript) == transcript = "hey assist"

LastWake(op, transcript, commands, wakes) ==
    [op |-> op, transcript |-> transcript, onCommand |-> commands,
     onWakeWord |-> wakes, preAwake |-> isAwake]

WakeInit ==
    /\ isAwake = FALSE
    /\ awakeTimeoutDue = 0
    /\ onresult = "null"
    /\ wkNow = 10000
    /\ lastWake = [op |-> "init", transcript |-> "", onCommand |-> 0,
                   onWakeWord |-> 0, preAwake |-> FALSE]

\* startListening() of the current render; supported: the platform has a
\* SpeechRecognition constructor. recognition.onresult becomes the
\* handleResult of this render.
startListening(supported) ==
    /\ onresult' = IF ~supported THEN onresult
                   ELSE IF isAwake THEN "awake" ELSE "asleep"
    /\ lastWake' = LastWake("startListening", "", 0, 0)
    /\ UNCHANGED <<isAwake, awakeTimeoutDue, wkNow>>
    /\ UNCHANGED notWake

\* handleResult as the render with isAwake = awake defined it.
handleResultOf(awake, transcript) ==
    IF includesWakeWord(transcript)
    THEN /\ isAwake' = TRUE
         /\ awakeTimeoutDue' = wkNow + 10000
         /\ lastWake' = LastWake("result", transcript, 0, 1)
    ELSE IF awake
    THEN /\ awakeTimeoutDue' = wkNow + 10000
         /\ lastWake' = LastWake("result", transcript, 1, 0)
         /\ UNCHANGED isAwake
    ELSE /\ lastWake' = LastWake("result", transcript, 0, 0)
         /\ UNCHANGED <<isAwake, awakeTimeoutDue>>

\* The recognition delivers a result: recognition.onresult runs.
recognitionResult(transcript) ==
    /\ onresult # "null"
    /\ handleResultOf(onresult = "awake", transcript)
    /\ UNCHANGED <<onresult, wkNow>>
    /\ UNCHANGED notWake

\* The timeout of awakeTimeoutRef fires: setIsAwake(false).
awakeTimeoutFires ==
    /\ awakeTimeoutDue # 0 /\ awakeTimeoutDue <= wkNow
    /\ isAwake' = FALSE
    /\ awakeTimeoutDue' = 0
    /\ lastWake' = LastWake("awakeTimeout", "", 0, 0)
    /\ UNCHANGED <<onresult, wkNow>>
    /\ UNCHANGED notWake

\* 2500 ms pass; the timeout is not overdue.
wkTick ==
    /\ wkNow < 10000 + 2500 * MaxWakeSteps
    /\ awakeTimeoutDue = 0 \/ wkNow < awakeTimeoutDue
    /\ wkNow' = wkNow + 2500
    /\ lastWake' = LastWake("tick", "", 0, 0)
    /\ UNCHANGED <<isAwake, awakeTimeoutDue, onresult>>
    /\ UNCHANGED notWake

WakeNext ==
    \/ \E supported \in BOOLEAN : startListening(supported)
    \/ \E transcript \in Transcripts : recognitionResult(transcript)
    \/ awakeTimeoutFires
    \/ wkTick

(***************************************************************************)
(* HapticsManager (src/unnamed/part_001).                                  *)
(***************************************************************************)

Strengths == {"off", "low", "medium", "high"}

HapticPattern == {"light", "medium", "heavy", "danger", "success", "warning"}

\* patterns[name]; a pattern is the list of durations the platform reads,
\* a single number being the list of that number.
patterns(name) ==
    CASE name = "light"   -> <<50>>
      [] name = "medium"  -> <<100>>
      [] name = "heavy"   -> <<200>>
      [] name = "danger"  -> <<100, 50, 100, 50, 200>>
      [] name = "success" -> <<50, 100, 50>>
      [] name = "warning" -> <<100, 100, 100>>

NavigationDirections ==
    {"left", "right", "straight", "slight-left", "slight-right", "u-turn"}

\* navigationPatterns[name].
navigationPatterns(name) ==
    CASE name = "left"         -> <<200, 100, 200>>
      [] name = "right"        -> <<200, 100, 200, 100, 200>>
      [] name = "straight"     -> <<100>>
      [] name = "slight-left"  -> <<150, 100>>
      [] name = "slight-right" -> <<150, 100, 150>>
      [] name = "u-turn"       -> <<300, 100, 300, 100, 300>>
      [] name = "arrival"      -> <<200, 100, 200, 100, 400>>

\* The event helpers and the pattern each passes to vibrate().
EventHelpers ==
    {"objectDetected", "personDetected", "dangerDetected", "emergencyActivated",
     "textFound", "modeChanged", "fallAlert", "objectFound"}

helperPattern(helper) ==
    CASE helper = "objectDetected"     -> patterns("light")
      [] helper = "personDetected"     -> patterns("medium")
      [] helper = "dangerDetected"     -> patterns("danger")
      [] helper = "emergencyActivated" -> <<200, 100, 200, 100, 200, 100, 200>>
      [] helper = "textFound"          -> patterns("success")
      [] helper = "modeChanged"        -> patterns("medium")
      [] helper = "fallAlert"          -> <<300, 200, 300, 200, 300, 200, 300>>
      [] helper = "objectFound"        -> <<100, 50, 100, 50, 200>>

\* getMultiplier(), in halves: 0, 0.5, 1, 1.5.
getMultiplier(s) ==
    CASE s = "off"    -> 0
      [] s = "low"    -> 1
      [] s = "medium" -> 2
      [] s = "high"   -> 3
      [] OTHER        -> 2

\* Math.round(v * multiplier) for a multiplier of halves halves / 2.
roundScaled(v, halves) == (v * halves + 1) \div 2

\* adjustPattern(pattern) at strength s.
adjustPattern(s, pattern) ==
    IF getMultiplier(s) = 0 THEN <<0>>
    ELSE [i \in 1..Len(pattern) |-> roundScaled(pattern[i], getMultiplier(s))]

\* What a call of navigator.vibrate does: it returns true or false, or it
\* raises; without vibration support navigator.vibrate is not a function
\* and the call raises a TypeError.
PlatformOutcomes == {"true", "false", "raise"}

platformCall(outcome) == IF isSupported THEN outcome ELSE "raise"

\* A method ran: the patterns it passed to a navigator.vibrate that
\* exists (whether the call then returned or raised), the value returned
\* and whether an exception left the method.
Haptic(op, arg, requests, ret, threw) ==
    [op |-> op, arg |-> arg, requests |-> requests, ret |-> ret,
     threw |-> threw]

\* vibrate(pattern): the guard, the lookup, and the call inside try/catch.
vibrateResult(op, arg, pattern, outcome) ==
    IF ~isSupported \/ strength = "off"
    THEN Haptic(op, arg, <<>>, "false", FALSE)
    ELSE LET adjustedPattern == adjustPattern(strength, pattern)
         IN  IF platformCall(outcome) = "raise"
             THEN Haptic(op, arg, <<adjustedPattern>>, "false", FALSE)
             ELSE Haptic(op, arg, <<adjustedPattern>>, platformCall(outcome), FALSE)

\* navigator.vibrate(pattern) called outside any try/catch by a method that
\* returns nothing.
unguardedCall(op, arg, pattern, outcome) ==
    IF ~isSupported
    THEN Haptic(op, arg, <<>>, "void", TRUE)
    ELSE Haptic(op, arg, <<pattern>>, "void", platformCall(outcome) = "raise")

HapticsInit ==
    /\ isSupported \in BOOLEAN
    /\ strength = "medium"
    /\ lastHaptic = Haptic("init", "", <<>>, "void", FALSE)

setStrength(s) ==
    /\ strength' = s
    /\ lastHaptic' = Haptic("setStrength", s, <<>>, "void", FALSE)
    /\ UNCHANGED isSupported
    /\ UNCHANGED notHaptics

\* The patterns vibrate() is called with directly: a name, looked up in
\* patterns, or a raw pattern (here a number and a list).
VibrateArguments ==
    {[name |-> n, raw |-> <<>>] : n \in HapticPattern}
        \cup {[name |-> "", raw |-> <<75>>], [name |-> "", raw |-> <<75, 25>>]}

vibrate(pattern, outcome) ==
    /\ lastHaptic' = vibrateResult("vibrate", pattern.name,
                        IF pattern.name \in HapticPattern
                        THEN patterns(pattern.name) ELSE pattern.raw,
                        outcome)
    /\ UNCHANGED <<isSupported, strength>>
    /\ UNCHANGED notHaptics

hapticsStop(outcome) ==
    /\ lastHaptic' = IF isSupported THEN unguardedCall("stop", "", <<0>>, outcome)
                     ELSE Haptic("stop", "", <<>>, "void", FALSE)
    /\ UNCHANGED <<isSupported, strength>>
    /\ UNCHANGED notHaptics

\* objectDetected() ... objectFound(): this.vibrate(pattern), the result
\* dropped.
eventHelper(helper, outcome) ==
    /\ lastHaptic' = [vibrateResult(helper, "", helperPattern(helper), outcome)
                         EXCEPT !.ret = "void"]
    /\ UNCHANGED <<isSupported, strength>>
    /\ UNCHANGED notHaptics

\* navigateLeft() ... navigateUTurn() and navigateDirection(direction).
navigateDirection(direction, outcome) ==
    /\ lastHaptic' = unguardedCall("navigate", direction,
                        adjustPattern(strength, navigationPatterns(direction)),
                        outcome)
    /\ UNCHANGED <<isSupported, strength>>
    /\ UNCHANGED notHaptics

navigationArrival(outcome) ==
    /\ lastHaptic' = unguardedCall("navigationArrival", "arrival",
                        adjustPattern(strength, navigationPatterns("arrival")),
                        outcome)
    /\ UNCHANGED <<isSupported, strength>>
    /\ UNCHANGED notHaptics

HapticsNext ==
    \/ \E s \in Strengths : setStrength(s)
    \/ \E pattern \in VibrateArguments, outcome \in PlatformOutcomes :
          vibrate(pattern, outcome)
    \/ \E outcome \in PlatformOutcomes : hapticsStop(outcome)
    \/ \E helper \in EventHelpers, outcome \in PlatformOutcomes :
          eventHelper(helper, outcome)
    \/ \E direction \in NavigationDirections, outcome \in PlatformOutcomes :
          navigateDirection(direction, outcome)
    \/ \E outcome \in PlatformOutcomes : navigationArrival(outcome)

(***************************************************************************)
(* ModeManager.getModeForCommand (src/unnamed/part_002).                   *)
(***************************************************************************)
\* A string is the sequence of its characters.
UpperCase ==
    <<"A", "B", "C", "D", "E", "F", "G", "H", "I", "J", "K", "L", "M", "N",
      "O", "P", "Q", "R", "S", "T", "U", "V", "W", "X", "Y", "Z">>

LowerCase ==
    <<"a", "b", "c", "d", "e", "f", "g", "h", "i", "j", "k", "l", "m", "n",
      "o", "p", "q", "r", "s", "t", "u", "v", "w", "x", "y", "z">>

\* String.prototype.toLowerCase.
toLowerCase(str) ==
    [i \in 1..Len(str) |->
        IF \E k \in 1..Len(UpperCase) : UpperCase[k] = str[i]
        THEN LowerCase[CHOOSE k \in 1..Len(UpperCase) : UpperCase[k] = str[i]]
        ELSE str[i]]

\* String.prototype.trim: the white space at both ends goes.
trim(str) ==
    LET inked == {i \in 1..Len(str) : str[i] # " "}
    IN  IF inked = {} THEN <<>>
        ELSE SubSeq(str, CHOOSE i \in inked : \A j \in inked : i <= j,
                         CHOOSE i \in inked : \A j \in inked : i >= j)

\* String.prototype.includes.
includes(str, searchString) ==
    \E i \in 0..(Len(str) - Len(searchString)) :
        SubSeq(str, i + 1, i + Len(searchString)) = searchString

\* The search strings of getModeForCommand.
kw ==
    [hey_assist |-> <<"h", "e", "y", " ", "a", "s", "s", "i", "s", "t">>,
     safe_walk |-> <<"s", "a", "f", "e", " ", "w", "a", "l", "k">>,
     safewalk |-> <<"s", "a", "f", "e", "w", "a", "l", "k">>,
     walk_mode |-> <<"w", "a", "l", "k", " ", "m", "o", "d", "e">>,
     find |-> <<"f", "i", "n", "d">>,
     search |-> <<"s", "e", "a", "r", "c", "h">>,
     locate |-> <<"l", "o", "c", "a", "t", "e">>,
     medicine |-> <<"m", "e", "d", "i", "c", "i", "n", "e">>,
     medication |-> <<"m", "e", "d", "i", "c", "a", "t", "i", "o", "n">>,
     pill |-> <<"p", "i", "l", "l">>,
     shop |-> <<"s", "h", "o", "p">>,
     barcode |-> <<"b", "a", "r", "c", "o", "d", "e">>,
     price |-> <<"p", "r", "i", "c", "e">>,
     navigate |-> <<"n", "a", "v", "i", "g", "a", "t", "e">>,
     directions |-> <<"d", "i", "r", "e", "c", "t", "i", "o", "n", "s">>,
     take_me |-> <<"t", "a", "k", "e", " ", "m", "e">>,
     detect |-> <<"d", "e", "t", "e", "c", "t">>,
     what |-> <<"w", "h", "a", "t">>,
     see |-> <<"s", "e", "e">>,
     read |-> <<"r", "e", "a", "d">>,
     text |-> <<"t", "e", "x", "t">>,
     emergency |-> <<"e", "m", "e", "r", "g", "e", "n", "c", "y">>,
     help_me |-> <<"h", "e", "l", "p", " ", "m", "e">>,
     sos |-> <<"s", "o", "s">>,
     stop |-> <<"s", "t", "o", "p">>,
     cancel |-> <<"c", "a", "n", "c", "e", "l">>,
     back |-> <<"b", "a", "c", "k">>]

\* getModeForCommand(command): the chain of tests; "null" is null.
getModeForCommand_readingFirst(c) ==
    LET cmd == trim(toLowerCase(c))
        has(searchString) == includes(cmd, searchString)
    IN  IF has(kw.hey_assist) THEN "idle"
        ELSE IF has(kw.read) \/ has(kw.text) THEN "reading"
        ELSE IF has(kw.safe_walk) \/ has(kw.safewalk) \/ has(kw.walk_mode)
             THEN "safe-walk"
        ELSE IF has(kw.find) \/ has(kw.search) \/ has(kw.locate)
             THEN "find-object"
        ELSE IF has(kw.medicine) \/ has(kw.medication) \/ has(kw.pill)
             THEN "medicine"
        ELSE IF has(kw.shop) \/ has(kw.barcode) \/ has(kw.price) THEN "shopping"
        ELSE IF has(kw.navigate) \/ has(kw.directions) \/ has(kw.take_me)
             THEN "navigation"
        ELSE IF has(kw.detect) \/ has(kw.what) \/ has(kw.see) THEN "detecting"
        ELSE IF has(kw.emergency) \/ has(kw.help_me) \/ has(kw.sos)
             THEN "emergency"
        ELSE IF has(kw.stop) \/ has(kw.cancel) \/ has(kw.back) THEN "idle"
        ELSE "null"

getModeForCommand(c) ==
    LET cmd == trim(toLowerCase(c))
        has(searchString) == includes(cmd, searchString)
    IN  IF has(kw.hey_assist) THEN "idle"
        ELSE IF has(kw.safe_walk) \/ has(kw.safewalk) \/ has(kw.walk_mode)
             THEN "safe-walk"
        ELSE IF has(kw.find) \/ has(kw.search) \/ has(kw.locate)
             THEN "find-object"
        ELSE IF has(kw.medicine) \/ has(kw.medication) \/ has(kw.pill)
             THEN "medicine"
        ELSE IF has(kw.shop) \/ has(kw.barcode) \/ has(kw.price) THEN "shopping"
        ELSE IF has(kw.navigate) \/ has(kw.directions) \/ has(kw.take_me)
             THEN "navigation"
        ELSE IF has(kw.detect) \/ has(kw.what) \/ has(kw.see) THEN "detecting"
        ELSE IF has(kw.read) \/ has(kw.text) THEN "reading"
        ELSE IF has(kw.emergency) \/ has(kw.help_me) \/ has(kw.sos)
             THEN "emergency"
        ELSE IF has(kw.stop) \/ has(kw.cancel) \/ has(kw.back) THEN "idle"
        ELSE "null"

\* The commands asked: upper case, surrounding and doubled spaces, search
\* strings inside longer words, several rules matched at once, none.
CommandList ==
    <<
       \* 1: "Hey Assist"
       <<"H", "e", "y", " ", "A", "s", "s", "i", "s", "t">>,
       \* 2: "hey assist find keys"
       <<"h", "e", "y", " ", "a", "s", "s", "i", "s", "t", " ", "f", "i",
         "n", "d", " ", "k", "e", "y", "s">>,
       \* 3: " Safe Walk "
       <<" ", "S", "a", "f", "e", " ", "W", "a", "l", "k", " ">>,
       \* 4: "find safe walk"
       <<"f", "i", "n", "d", " ", "s", "a", "f", "e", " ", "w", "a", "l",
         "k">>,
       \* 5: "Search medicine"
       <<"S", "e", "a", "r", "c", "h", " ", "m", "e", "d", "i", "c", "i",
         "n", "e">>,
       \* 6: "pill price"
       <<"p", "i", "l", "l", " ", "p", "r", "i", "c", "e">>,
       \* 7: "shop directions"
       <<"s", "h", "o", "p", " ", "d", "i", "r", "e", "c", "t", "i", "o",
         "n", "s">>,
       \* 8: "take me back"
       <<"t", "a", "k", "e", " ", "m", "e", " ", "b", "a", "c", "k">>,
       \* 9: "what text"
       <<"w", "h", "a", "t", " ", "t", "e", "x", "t">>,
       \* 10: "read"
       <<"r", "e", "a", "d">>,
       \* 11: "bread"
       <<"b", "r", "e", "a", "d">>,
       \* 12: "SOS stop"
       <<"S", "O", "S", " ", "s", "t", "o", "p">>,
       \* 13: "cancel"
       <<"c", "a", "n", "c", "e", "l">>,
       \* 14: "HELP ME"
       <<"H", "E", "L", "P", " ", "M", "E">>,
       \* 15: "hello"
       <<"h", "e", "l", "l", "o">>,
       \* 16: ""
       <<>>,
       \* 17: "hey  assist"
       <<"h", "e", "y", " ", " ", "a", "s", "s", "i", "s", "t">>,
       \* 18: "help  me"
       <<"h", "e", "l", "p", " ", " ", "m", "e">>,
       \* 19: "read what you see"
       <<"r", "e", "a", "d", " ", "w", "h", "a", "t", " ", "y", "o", "u",
         " ", "s", "e", "e">>,
       \* 20: "locate shop"
       <<"l", "o", "c", "a", "t", "e", " ", "s", "h", "o", "p">>
    >>

Commands == Range(CommandList)

NoCommandResult == [mode |-> "unset", askedIn |-> "idle"]

CommandInit ==
    /\ command \in Commands
    /\ commandResult = NoCommandResult

\* One call of modeManager.getModeForCommand(command); askedIn is the mode
\* the manager was in.
askModeForCommand ==
    /\ commandResult' = [mode |-> getModeForCommand(command),
                         askedIn |-> currentMode]
    /\ UNCHANGED command
    /\ UNCHANGED notCommand

\* The manager changes mode between the calls.
CommandNext ==
    \/ askModeForCommand
    \/ \E newMode \in TargetModes : setMode(newMode)
    \/ goBack

(***************************************************************************)
(* Detection utilities (src/unnamed/part_000).                             *)
(***************************************************************************)

MaxProcessed == 3

Distances == {"close", "medium", "far"}

\* The fields of a ProcessedDetection that getMostImportantDetection reads,
\* and the direction, which tells apart two detections of equal rank.
Processed(object, distance, dir) ==
    [object |-> object, priority |-> getPriority(object),
     distance |-> distance, direction |-> dir]

\* The detections the lists are made of: every tier at every distance on
\* the left, and a second car at every distance on the right.
ProcessedPool ==
    {Processed(o, d, "left") : o \in ObjectClasses, d \in Distances}
        \cup {Processed("car", d, "right") : d \in Distances}

\* null.
NullDetection ==
    [object |-> "null", priority |-> "null", distance |-> "null",
     direction |-> "null"]

priorityOrder(priority) ==
    CASE priority = "critical" -> 0
      [] priority = "high"     -> 1
      [] priority = "normal"   -> 2
      [] priority = "low"      -> 3

distanceOrder(d) ==
    CASE d = "close"  -> 0
      [] d = "medium" -> 1
      [] d = "far"    -> 2

\* The comparator handed to sort().
compareDetections(a, b) ==
    LET priorityDiff == priorityOrder(a.priority) - priorityOrder(b.priority)
    IN  IF priorityDiff # 0 THEN priorityDiff
        ELSE distanceOrder(a.distance) - distanceOrder(b.distance)

\* Array.prototype.sort with that comparator: the sort is stable, elements
\* that compare equal keep their order.
RECURSIVE sortDetections(_)
sortDetections(list) ==
    IF list = <<>> THEN <<>>
    ELSE LET front == sortDetections(SubSeq(list, 1, Len(list) - 1))
             x == list[Len(list)]
             before == {i \in 1..Len(front) : compareDetections(front[i], x) <= 0}
             k == IF before = {} THEN 0
                  ELSE CHOOSE i \in before : \A j \in before : j <= i
         IN  SubSeq(front, 1, k) \o <<x>> \o SubSeq(front, k + 1, Len(front))

\* getMostImportantDetection with a sort that puts the later of two equal
\* elements first.
getMostImportantDetection_lastOfEquals(list) ==
    IF Len(list) = 0 THEN NullDetection
    ELSE LET best == {i \in 1..Len(list) :
                        \A j \in 1..Len(list) :
                            compareDetections(list[i], list[j]) <= 0}
         IN  list[CHOOSE i \in best : \A j \in best : j <= i]

\* getMostImportantDetection(processed): sorted[0] of a sorted copy.
getMostImportantDetection(list) ==
    IF Len(list) = 0 THEN NullDetection
    ELSE sortDetections(list)[1]

Unselected == [called |-> FALSE, result |-> NullDetection, argument |-> <<>>]

SelectInit ==
    /\ processed \in UNION {[1..n -> ProcessedPool] : n \in 0..MaxProcessed}
    /\ selected = Unselected

\* One call; argument is the caller's array as the call found it.
selectMostImportant ==
    /\ selected' = [called |-> TRUE,
                    result |-> getMostImportantDetection(processed),
                    argument |-> processed]
    /\ UNCHANGED processed
    /\ UNCHANGED notSelect

SelectNext == selectMostImportant

MaxX == 20
MaxWidth == 8

FrameWidths == {20, 30}

\* getDirection with both boundaries moved to the outer answers.
getDirection_inclusive(bbox, frameWidth) ==
    IF (2 * bbox[1] + bbox[3]) * 100 <= 35 * (2 * frameWidth) THEN "left"
    ELSE IF (2 * bbox[1] + bbox[3]) * 100 >= 65 * (2 * frameWidth) THEN "right"
    ELSE "center"

\* getDirection(bbox, frameWidth).  centerX2 is twice centerX, so that
\* half pixels stay exact; relativeX = centerX2 / (2 * frameWidth) is
\* compared with 0.35 and 0.65 by cross-multiplication.
getDirection(bbox, frameWidth) ==
    LET centerX2 == 2 * bbox[1] + bbox[3]
    IN  IF centerX2 * 100 < 35 * (2 * frameWidth) THEN "left"
        ELSE IF centerX2 * 100 > 65 * (2 * frameWidth) THEN "right"
        ELSE "center"

DirectionInit ==
    /\ directionInput \in
          [bbox : {<<x, 0, w, 10>> : x \in 0..MaxX, w \in 0..MaxWidth},
           frameWidth : FrameWidths]
    /\ directionResult = "unset"

callGetDirection ==
    /\ directionResult' = getDirection(directionInput.bbox,
                                       directionInput.frameWidth)
    /\ UNCHANGED directionInput
    /\ UNCHANGED notDirection

DirectionNext == callGetDirection

MaxHeight == 30

FrameHeights == {20, 100}

\* The classes passed: some have a REFERENCE_SIZES entry, "kite" has none.
DistanceClasses == {"person", "car", "chair", "kite"}

\* REFERENCE_SIZES[objectClass] || 200.
referenceSize(objectClass) ==
    CASE objectClass = "person" -> 400
      [] objectClass = "car"    -> 300
      [] objectClass = "chair"  -> 150
      [] OTHER                  -> 200

\* estimateDistance with the thresholds inclusive.
estimateDistance_inclusive(bbox, objectClass, frameHeight) ==
    LET meters10 ==
            IF bbox[4] * 100 >= 50 * frameHeight THEN 5
            ELSE IF bbox[4] * 100 >= 30 * frameHeight THEN 10
            ELSE IF bbox[4] * 100 >= 15 * frameHeight THEN 20
            ELSE IF bbox[4] * 100 >= 8 * frameHeight THEN 40
            ELSE 60
    IN  [distance |-> IF meters10 <= 10 THEN "close"
                      ELSE IF meters10 <= 30 THEN "medium" ELSE "far",
         meters10 |-> meters10]

\* estimateDistance(bbox, objectClass, frameHeight).  Lengths in metres are
\* kept in tenths (meters10), which is what Math.round(meters * 10) holds;
\* apparentRatio = objectHeight / frameHeight is compared by
\* cross-multiplication.  The reference size is computed and not used.
estimateDistance(bbox, objectClass, frameHeight) ==
    LET objectHeight == bbox[4]
        reference == referenceSize(objectClass)
        meters10 ==
            IF objectHeight * 100 > 50 * frameHeight THEN 5
            ELSE IF objectHeight * 100 > 30 * frameHeight THEN 10
            ELSE IF objectHeight * 100 > 15 * frameHeight THEN 20
            ELSE IF objectHeight * 100 > 8 * frameHeight THEN 40
            ELSE 60
    IN  [distance |-> IF meters10 <= 10 THEN "close"
                      ELSE IF meters10 <= 30 THEN "medium" ELSE "far",
         meters10 |-> meters10]

NoDistance == [distance |-> "unset", meters10 |-> 0]

DistanceInit ==
    /\ distanceInput \in
          [bbox : {<<0, 0, 10, h>> : h \in 0..MaxHeight},
           objectClass : DistanceClasses,
           frameHeight : FrameHeights]
    /\ distanceResult = NoDistance

callEstimateDistance ==
    /\ distanceResult' = estimateDistance(distanceInput.bbox,
                                          distanceInput.objectClass,
                                          distanceInput.frameHeight)
    /\ UNCHANGED distanceInput
    /\ UNCHANGED notDistance

DistanceNext == callEstimateDistance

(***************************************************************************)
(* SpeechManager: speech recognition (src/src/lib/speech.ts).              *)
(***************************************************************************)

\* Restart timeouts of one kind that can be outstanding at one time.
MaxRestartTimers == 2

\* event.error of the recogniser's error event.
RecognitionErrors == {"no-speech", "aborted", "network"}

\* recognition.start() inside try/catch: a recogniser that is not idle
\* raises InvalidStateError, which is caught.
recognitionStart(state) == IF state = "idle" THEN "running" ELSE state

\* recognition.stop(): the recogniser stops and will report its end.
recognitionStop(state) == IF state = "running" THEN "stopping" ELSE state

\* The fields startListening() writes.
Listening == [isListening |-> isListening, recognition |-> recognition]

\* startListening(onCommand), called by a client or by the timeout of
\* onerror.
startListeningBody(l) ==
    IF recognitionSupported /\ ~l.isListening
    THEN [isListening |-> TRUE, recognition |-> recognitionStart(l.recognition)]
    ELSE l

RecognitionInit ==
    /\ recognitionSupported \in BOOLEAN
    /\ isListening = FALSE
    /\ recognition = "idle"
    /\ endTimers = 0
    /\ errorTimers = 0
    /\ stopped = FALSE
    /\ lastRec = "init"

\* A client calls speechManager.startListening(onCommand).
speechStartListening ==
    /\ isListening' = startListeningBody(Listening).isListening
    /\ recognition' = startListeningBody(Listening).recognition
    /\ stopped' = FALSE
    /\ lastRec' = "startListening"
    /\ UNCHANGED <<recognitionSupported, endTimers, errorTimers>>
    /\ UNCHANGED notRecognition

\* A client calls speechManager.stopListening().
speechStopListening ==
    /\ isListening' = FALSE
    /\ recognition' = IF recognitionSupported THEN recognitionStop(recognition)
                      ELSE recognition
    /\ stopped' = TRUE
    /\ lastRec' = "stopListening"
    /\ UNCHANGED <<recognitionSupported, endTimers, errorTimers>>
    /\ UNCHANGED notRecognition

\* The recogniser reports its end, on its own or after stop() or an error:
\* recognition.onend.
recognitionOnend ==
    /\ recognition \in {"running", "stopping"}
    /\ isListening => endTimers < MaxRestartTimers
    /\ recognition' = "idle"
    /\ endTimers' = IF isListening THEN endTimers + 1 ELSE endTimers
    /\ lastRec' = "onend"
    /\ UNCHANGED <<recognitionSupported, isListening, errorTimers, stopped>>
    /\ UNCHANGED notRecognition

\* The recogniser reports an error, its end to follow: recognition.onerror.
recognitionOnerror(error) ==
    /\ recognition = "running"
    /\ LET restarts == error # "no-speech" /\ error # "aborted" /\ isListening
       IN  /\ restarts => errorTimers < MaxRestartTimers
           /\ errorTimers' = IF restarts THEN errorTimers + 1 ELSE errorTimers
    /\ recognition' = "stopping"
    /\ lastRec' = "onerror"
    /\ UNCHANGED <<recognitionSupported, isListening, endTimers, stopped>>
    /\ UNCHANGED notRecognition

\* The timeout of onend fires, 100 ms after it was set:
\* this.recognition?.start().
endTimerFires ==
    /\ endTimers > 0
    /\ endTimers' = endTimers - 1
    /\ recognition' = recognitionStart(recognition)
    /\ lastRec' = "endTimer"
    /\ UNCHANGED <<recognitionSupported, isListening, errorTimers, stopped>>
    /\ UNCHANGED notRecognition

\* The timeout of onerror fires, 1000 ms after it was set:
\* this.startListening(this.onCommandCallback).
errorTimerFires ==
    /\ errorTimers > 0
    /\ errorTimers' = errorTimers - 1
    /\ isListening' = startListeningBody(Listening).isListening
    /\ recognition' = startListeningBody(Listening).recognition
    /\ lastRec' = "errorTimer"
    /\ UNCHANGED <<recognitionSupported, endTimers, stopped>>
    /\ UNCHANGED notRecognition

RecognitionNext ==
    \/ speechStartListening
    \/ speechStopListening
    \/ recognitionOnend
    \/ \E error \in RecognitionErrors : recognitionOnerror(error)
    \/ endTimerFires
    \/ errorTimerFires

vars == <<speechVars, modeVars, cooldownVars, heartbeatVars, appVars, wakeVars,
          hapticsVars, utilVars>>

\* The speech manager and its sink; the mode manager is not called.
\* The components a specification does not run start like this.
CommandIdle == CommandInit /\ command = CommandList[1]

SelectIdle == SelectInit /\ processed = <<>>

DirectionIdle ==
    /\ DirectionInit
    /\ directionInput = [bbox |-> <<0, 0, 0, 10>>, frameWidth |-> 20]

DistanceIdle ==
    /\ DistanceInit
    /\ distanceInput = [bbox |-> <<0, 0, 10, 0>>, objectClass |-> "person",
                        frameHeight |-> 20]

RecognitionIdle == RecognitionInit /\ recognitionSupported = TRUE

UtilIdle ==
    CommandIdle /\ SelectIdle /\ DirectionIdle /\ DistanceIdle
    /\ RecognitionIdle

HapticsIdle == HapticsInit /\ isSupported = TRUE /\ UtilIdle

CooldownIdle ==
    /\ CooldownInit
    /\ component = "BlindCompanion"
    /\ scene = {ProcessedDetection("car", "left"), ProcessedDetection("car", "right")}

SpecSpeechInit == SpeechInit /\ ModeInit /\ CooldownIdle /\ HeartbeatInit /\ AppInit /\ WakeInit /\ HapticsIdle

SpecSpeech == SpecSpeechInit /\ [][SpeechNext]_vars

\* The mode manager; the speech manager is not called.
SpecModeInit ==
    ModeInit /\ SpeechInit /\ synthesis = TRUE /\ CooldownIdle /\ HeartbeatInit /\ AppInit /\ WakeInit /\ HapticsIdle

SpecMode == SpecModeInit /\ [][ModeNext]_vars

\* The detection-announcement effect; the managers are not called.
SpecCooldownInit ==
    CooldownInit /\ SpeechInit /\ synthesis = TRUE /\ ModeInit /\ HeartbeatInit /\ AppInit /\ WakeInit /\ HapticsIdle

SpecCooldown == SpecCooldownInit /\ [][CooldownNext]_vars

\* The speech manager under a steady load, every utterance ending or
\* failing in the end.
SpecSteadyInit ==
    SpeechInit /\ synthesis = TRUE /\ ModeInit /\ CooldownIdle /\ HeartbeatInit /\ AppInit /\ WakeInit /\ HapticsIdle

SpecSteady == SpecSteadyInit /\ [][SteadyNext]_vars /\ SteadyFairness

\* The speech manager until its callers fall silent, every utterance
\* reporting back.
SpecDrainInit ==
    SpeechInit /\ ModeInit /\ CooldownIdle /\ HeartbeatInit /\ AppInit
    /\ WakeInit /\ HapticsIdle

SpecDrain == SpecDrainInit /\ [][DrainNext]_vars /\ DrainFairness

\* BlindCompanion's mode state with the mode manager.
SpecUiInit ==
    AppInit /\ ModeInit /\ SpeechInit /\ synthesis = TRUE /\ CooldownIdle
    /\ HeartbeatInit /\ WakeInit /\ HapticsIdle

SpecUi == SpecUiInit /\ [][UiNext]_vars

\* BlindCompanion with the mode manager.
SpecAppInit ==
    AppInit /\ ModeInit /\ SpeechInit /\ synthesis = TRUE /\ CooldownIdle
    /\ HeartbeatInit /\ WakeInit /\ HapticsIdle

SpecApp == SpecAppInit /\ [][AppNext]_vars

\* The wake-word hook.
SpecWakeInit ==
    WakeInit /\ ModeInit /\ SpeechInit /\ synthesis = TRUE /\ CooldownIdle
    /\ HeartbeatInit /\ AppInit /\ HapticsIdle

SpecWake == SpecWakeInit /\ [][WakeNext]_vars

\* Everything but the pure functions, at rest.
StateIdle ==
    ModeInit /\ SpeechInit /\ synthesis = TRUE /\ CooldownIdle
    /\ HeartbeatInit /\ AppInit /\ WakeInit /\ HapticsInit /\ isSupported = TRUE
    /\ RecognitionIdle

\* The speech recognition of the speech manager.
SpecRecognitionInit ==
    RecognitionInit /\ CommandIdle /\ SelectIdle /\ DirectionIdle
    /\ DistanceIdle /\ ModeInit /\ SpeechInit /\ synthesis = TRUE
    /\ CooldownIdle /\ HeartbeatInit /\ AppInit /\ WakeInit /\ HapticsInit
    /\ isSupported = TRUE

SpecRecognition == SpecRecognitionInit /\ [][RecognitionNext]_vars

\* The mode manager asked for the mode of a command.
SpecCommandInit ==
    CommandInit /\ SelectIdle /\ DirectionIdle /\ DistanceIdle /\ StateIdle

SpecCommand == SpecCommandInit /\ [][CommandNext]_vars

\* getMostImportantDetection.
SpecSelectInit ==
    SelectInit /\ CommandIdle /\ DirectionIdle /\ DistanceIdle /\ StateIdle

SpecSelect == SpecSelectInit /\ [][SelectNext]_vars

\* getDirection.
SpecDirectionInit ==
    DirectionInit /\ CommandIdle /\ SelectIdle /\ DistanceIdle /\ StateIdle

SpecDirection == SpecDirectionInit /\ [][DirectionNext]_vars

\* estimateDistance.
SpecDistanceInit ==
    DistanceInit /\ CommandIdle /\ SelectIdle /\ DirectionIdle /\ StateIdle

SpecDistance == SpecDistanceInit /\ [][DistanceNext]_vars

\* The haptics manager.
SpecHapticsInit ==
    HapticsInit /\ UtilIdle /\ WakeInit /\ ModeInit /\ SpeechInit /\ synthesis = TRUE
    /\ CooldownIdle /\ HeartbeatInit /\ AppInit

SpecHaptics == SpecHapticsInit /\ [][HapticsNext]_vars

\* The heartbeat hook; the managers and the announcement effect do not run.
SpecHeartbeatInit ==
    HeartbeatInit /\ SpeechInit /\ synthesis = TRUE /\ ModeInit /\ CooldownIdle /\ AppInit /\ WakeInit /\ HapticsIdle

SpecHeartbeat == SpecHeartbeatInit /\ [][HeartbeatNext]_vars

(***************************************************************************)
(* Properties of the speech queue manager, checked under SpecSpeech.       *)
(***************************************************************************)

\* The item the sink is playing in the state the last operation started from.
PrePlaying == IF last.preSink # <<>> THEN Head(last.preSink) ELSE NoItem

LastDispatched == IF dispatched # <<>> THEN dispatched[Len(dispatched)] ELSE NoItem

\* C1: speak(text, 'critical') cancels the playback in progress, discards
\* every pending item and the critical item is the next item handed to the
\* sink; nothing enqueued before a critical item is handed to the sink
\* after it.
C1_CriticalPlaysNext ==
    /\ (last.op = "speak" /\ last.item.priority = "critical") =>
          /\ Range(last.preSink) \subseteq cancelled
          /\ sinkQueue \in {<<>>, <<last.item>>}
          /\ queue = <<>>
          /\ LastDispatched = last.item
    /\ \A i, j \in 1..Len(dispatched) :
          (i < j /\ dispatched[i].priority = "critical")
             => dispatched[j].id > dispatched[i].id

\* C1 witness: a critical item arrived while an item was playing and others
\* were pending.
C1_Witness ==
    /\ last.op = "speak" /\ last.item.priority = "critical"
    /\ last.preSpeaking /\ last.preSink # <<>> /\ Len(last.preQueue) >= 2
    /\ sinkQueue = <<last.item>>

\* C2: while a critical item is playing, speak(text, 'high') issues no
\* cancel and the high item is held as the next item to play.
C2_HighNeverPreemptsCritical ==
    (/\ last.op = "speak" /\ last.item.priority = "high"
     /\ PrePlaying.priority = "critical")
       => /\ sinkQueue = last.preSink
          /\ cancelled = last.preCancelled
          /\ queue # <<>> /\ Head(queue) = last.item

\* C3: at most one utterance is in flight, and isSpeaking is true whenever
\* one is.
C3_ExactlyOneInFlight ==
    /\ Len(sinkQueue) <= 1
    /\ sinkQueue # <<>> => isSpeaking

\* C4: while a low, normal or high item is playing, speak(text, 'high')
\* cancels that playback, the high item is the next item handed to the sink
\* and the pending items are left as they were.
C4_HighPreemptsNonCritical ==
    (/\ last.op = "speak" /\ last.item.priority = "high"
     /\ PrePlaying.priority \in {"low", "normal", "high"})
       => /\ Range(last.preSink) \subseteq cancelled
          /\ LastDispatched = last.item
          /\ queue = last.preQueue

\* C5: speak() with priority normal or low while an item is playing issues
\* no cancel, leaves the playing item and isSpeaking as they were and only
\* adds the new item to the pending queue.
C5_NormalLowNeverPreempt ==
    (/\ last.op = "speak" /\ last.item.priority \in {"normal", "low"}
     /\ last.preSink # <<>>)
       => /\ cancelled = last.preCancelled
          /\ sinkQueue = last.preSink
          /\ isSpeaking = last.preSpeaking
          /\ Len(queue) = Len(last.preQueue) + 1
          /\ last.item \in Range(queue)

\* C6: the pending queue is ordered by non-increasing priority value with
\* equal priorities in insertion order, and items of equal priority are
\* handed to the sink in the order they were enqueued.
C6_QueueOrdered ==
    /\ \A i, j \in 1..Len(queue) :
          i < j =>
            /\ getPriorityValue(queue[i].priority) >= getPriorityValue(queue[j].priority)
            /\ queue[i].priority = queue[j].priority => queue[i].id < queue[j].id
    /\ \A i, j \in 1..Len(dispatched) :
          (i < j /\ dispatched[i].priority = dispatched[j].priority)
             => dispatched[i].id < dispatched[j].id

\* C6 witness: a speak() call left a pending queue in which a later item
\* was sorted ahead of an earlier one and two items of equal priority wait.
C6_Witness ==
    /\ last.op = "speak"
    /\ \E i, j \in 1..Len(queue) : i < j /\ queue[i].id > queue[j].id
    /\ \E i, j \in 1..Len(queue) : i < j /\ queue[i].priority = queue[j].priority

\* C7: stop() cancels the playback, empties the pending queue and clears
\* isSpeaking; until speak() is called again nothing is handed to the sink,
\* whatever callbacks arrive.
C7_StopIsUnconditional ==
    /\ last.op = "stop" => Range(last.preSink) \subseteq cancelled
    /\ stopMark # -1 =>
          /\ queue = <<>>
          /\ sinkQueue = <<>>
          /\ ~isSpeaking
          /\ Len(dispatched) = stopMark

\* C7 witness: stop() was called with an item playing and items pending,
\* and the callback of a cancelled utterance arrived after it.
C7_Witness ==
    /\ stopMark # -1
    /\ last.op = "oncancelled"
    /\ Len(dispatched) < nextId - 1

\* C8: after a failed dispatch (the error callback of the item being
\* played, or synthesis.speak() raising) the manager is not left with
\* isSpeaking set and nothing in flight, and the error callback hands the
\* next pending item to the sink.
C8_DispatchFailureKeepsDraining ==
    (last.op = "onerror" \/ last.threw) =>
       /\ isSpeaking => sinkQueue # <<>>
       /\ (last.op = "onerror" /\ last.preQueue # <<>>)
             => LastDispatched = Head(last.preQueue)

(***************************************************************************)
(* Properties of the mode manager, checked under SpecMode.                 *)
(***************************************************************************)

\* C9: a setMode(target) with target equal to the current mode, or with a
\* non-idle current mode of higher priority than target, leaves current
\* mode, previous mode and history unchanged, calls no subscriber and
\* returns the config of the current mode.
C9_RejectedSetModeIsNoOp ==
    (/\ lastMode.op = "setMode"
     /\ \/ lastMode.target = lastMode.preCurrent
        \/ /\ lastMode.preCurrent # "idle"
           /\ modePriority(lastMode.target) < modePriority(lastMode.preCurrent))
       => /\ currentMode = lastMode.preCurrent
          /\ previousMode = lastMode.prePrevious
          /\ modeHistory = lastMode.preHistory
          /\ lastMode.calls = <<>>
          /\ lastMode.ret = MODE_CONFIGS(currentMode)

\* C9 witness: setMode('reading') was gate-rejected in safe-walk with a
\* subscriber present.
C9_Witness ==
    /\ lastMode.op = "setMode"
    /\ lastMode.preCurrent = "safe-walk" /\ lastMode.target = "reading"
    /\ listeners # <<>>

\* C10: setMode('idle') called in emergency makes idle the current mode.
C10_EmergencyLeavesToIdle ==
    (/\ lastMode.op = "setMode"
     /\ lastMode.preCurrent = "emergency" /\ lastMode.target = "idle")
       => currentMode = "idle"

\* The last call was a setMode(target) that neither returned early on
\* target = current nor was rejected by the priority gate.
SetModeAccepted ==
    /\ lastMode.op = "setMode"
    /\ lastMode.target # lastMode.preCurrent
    /\ ~(/\ lastMode.preCurrent # "idle"
         /\ modePriority(lastMode.target) < modePriority(lastMode.preCurrent))

\* C11: a setMode(target) called in emergency with a target other than idle
\* and emergency leaves emergency the current mode and calls no subscriber.
C11_EmergencyRejectsOtherModes ==
    (/\ lastMode.op = "setMode"
     /\ lastMode.preCurrent = "emergency"
     /\ lastMode.target \notin {"idle", "emergency"})
       => /\ currentMode = "emergency"
          /\ lastMode.calls = <<>>

\* C11 witness: setMode('reading') was called in emergency with both
\* callbacks subscribed.
C11_Witness ==
    /\ lastMode.op = "setMode"
    /\ lastMode.preCurrent = "emergency" /\ lastMode.target = "reading"
    /\ Len(listeners) = 2

\* C12: a setMode('emergency') called in any mode other than emergency makes
\* emergency the current mode.
C12_EmergencyAlwaysEntered ==
    (/\ lastMode.op = "setMode"
     /\ lastMode.target = "emergency"
     /\ lastMode.preCurrent # "emergency")
       => currentMode = "emergency"

\* C12 witness: setMode('emergency') was called in safe-walk, one of the two
\* modes of the highest priority below emergency.
C12_Witness ==
    /\ lastMode.op = "setMode"
    /\ lastMode.target = "emergency" /\ lastMode.preCurrent = "safe-walk"
    /\ currentMode = "emergency"

C14_GoBackRoundTrip ==
    (/\ lastMode.op = "goBack"
     /\ lastMode.preHistory # <<>>
     /\ lastMode.preCurrent # lastMode.prePrevious)
       => currentMode = lastMode.prePrevious

\* C15: canTransitionTo(target) returns false exactly when the current mode
\* is emergency and target is not idle, and changes no field.
C15_CanTransitionTo ==
    lastMode.op = "canTransitionTo"
       => /\ (lastMode.allowed = FALSE)
                <=> (currentMode = "emergency" /\ lastMode.target # "idle")
          /\ currentMode = lastMode.preCurrent
          /\ previousMode = lastMode.prePrevious
          /\ modeHistory = lastMode.preHistory

\* C15 witness: canTransitionTo('idle') was called in emergency and
\* returned true.
C15_Witness ==
    /\ lastMode.op = "canTransitionTo"
    /\ currentMode = "emergency" /\ lastMode.target = "idle"
    /\ lastMode.allowed

(***************************************************************************)
(* Properties of the detection-announcement effect, checked under          *)
(* SpecCooldown.                                                           *)
(***************************************************************************)

\* The cooldown window of a tier, in ms.
C16_Window(priority) ==
    CASE priority = "critical" -> 1500
      [] priority = "high"     -> 2500
      [] priority = "normal"   -> 4000
      [] priority = "low"      -> 6000

\* The effect has just run in an announcing mode with a detection.
AnnouncementAttempted ==
    /\ lastAnnounce.ran
    /\ lastAnnounce.detection # NoDetection
    /\ isDetectingMode(component, lastAnnounce.mode)

\* C16: an announcement attempt for an (object, direction) key calls speak()
\* (once, with the tier of the detection) if more than the cooldown of its
\* tier has passed since the last speak() call for that key, and is
\* suppressed otherwise.
C16_CooldownPerKey ==
    AnnouncementAttempted
       => LET elapsed == cdNow - lastAnnounce.lastSpokenAt
              window == C16_Window(lastAnnounce.detection.priority)
          IN  /\ (lastAnnounce.spoke # <<>>) <=> (elapsed > window)
              /\ lastAnnounce.spoke # <<>>
                    => lastAnnounce.spoke =
                          <<[key |-> cooldownKey(lastAnnounce.detection),
                             priority |-> lastAnnounce.detection.priority]>>

\* C16 witness: a low-tier key is announced for the second time, 6500 ms
\* after the first.
C16_Witness ==
    /\ AnnouncementAttempted
    /\ lastAnnounce.detection.priority = "low"
    /\ lastAnnounce.spoke # <<>>
    /\ lastAnnounce.lastSpokenAt # 0
    /\ cdNow - lastAnnounce.lastSpokenAt = 6500

(***************************************************************************)
(* Properties of the heartbeat hook, checked under SpecHeartbeat.          *)
(***************************************************************************)

\* C17: while the hook is enabled the interval fires every intervalMs,
\* however often the detections change: the clock never passes the time the
\* next tick is due by.
C17_TickEveryInterval ==
    enabled => hbNow <= tickDueBy

\* The last step was a heartbeat tick that passed the 3-second guard.
TickPassedGuard == lastHb.op = "interval" /\ lastHb.passed

\* The one speak() call of a run of generateFeedback is the danger warning
\* if a detection is high or critical, else the awareness count if there is
\* a detection, else a reassurance phrase.
OneFeedbackCall ==
    /\ Len(lastHb.spoke) = 1
    /\ IF \E i \in 1..Len(detections) : detections[i] \in {"critical", "high"}
       THEN lastHb.spoke[1] = [text |-> "Warning", priority |-> "high"]
       ELSE IF detections # <<>>
       THEN /\ lastHb.spoke[1].priority = "low"
            /\ lastHb.spoke[1].text =
                  IF Len(detections) = 1 THEN "One object nearby"
                  ELSE "objects nearby. Proceed with caution."
       ELSE /\ lastHb.spoke[1].priority = "low"
            /\ lastHb.spoke[1].text \in Range(PATH_STATUS_MESSAGES)

\* C18: a heartbeat tick that passes the guard makes exactly one speak()
\* call, chosen from the detections, and causes no second announcement.
C18_ExactlyOneAnnouncementPerTick ==
    TickPassedGuard => (OneFeedbackCall /\ lastHb.armed = {})

\* C18, amended: a heartbeat tick that passes the guard makes exactly one
\* speak() call, chosen from the detections; it sets a timeout that speaks
\* the current navigation step 1500 ms later exactly when navigating with a
\* step, and that timeout makes one speak() call of priority normal.
C18_OneCallPlusNavigationContext ==
    /\ TickPassedGuard
          => /\ OneFeedbackCall
             /\ lastHb.armed =
                   IF navigation.isNavigating
                      /\ navigation.currentNavigationStep # "null"
                   THEN {[due |-> hbNow + 1500,
                          step |-> navigation.currentNavigationStep]}
                   ELSE {}
             /\ lastHb.armed \subseteq followUps
    /\ lastHb.op = "followUp"
          => /\ Len(lastHb.spoke) = 1
             /\ lastHb.spoke[1].priority = "normal"
             /\ lastHb.spoke[1].text # "null"

\* C18 witness: a tick passed the guard with a high detection after a normal
\* one while navigating.
C18_Witness ==
    /\ TickPassedGuard
    /\ detections = <<"normal", "high">>
    /\ navigation.isNavigating
    /\ lastHb.armed # {}

Pending(id) == \E i \in 1..Len(queue) : queue[i].id = id

\* C20: every item in the pending queue eventually leaves it, dispatched to
\* the sink or discarded by stop() or a critical announcement, whatever
\* arrives in the meantime.
C20_NoStarvation ==
    \A id \in 1..MaxItems : Pending(id) ~> ~Pending(id)

(***************************************************************************)
(* Properties of BlindCompanion, checked under SpecApp.                    *)
(***************************************************************************)

\* C21: after handleStop, and after handleDetect, handleSafeWalk or
\* handleFindObject run while their own mode is active, the current mode
\* of the mode manager is idle.
C21_StopReturnsToIdle ==
    (\/ lastApp.op = "handleStop"
     \/ lastApp.op = "handleDetect" /\ lastApp.preMode = "detecting"
     \/ lastApp.op = "handleSafeWalk" /\ lastApp.preMode = "safe-walk"
     \/ lastApp.op = "handleFindObject" /\ lastApp.preMode = "find-object")
       => currentMode = "idle"

\* C22: when the timeout set at a confirmed fall fires and the fall has not
\* been reset, the current mode of the mode manager becomes emergency.
C22_FallEntersEmergency ==
    (lastApp.op = "fallTimer" /\ fallDetected) => currentMode = "emergency"

(***************************************************************************)
(* Properties of the wake-word hook, checked under SpecWake.               *)
(***************************************************************************)

\* C23: a recognized utterance without the wake word is delivered to
\* onCommand exactly once if the assistant is awake (the wake word or a
\* delivered command is less than 10 s old) and is not delivered if it is
\* not awake.
C23_WakeWordGate ==
    (lastWake.op = "result" /\ ~includesWakeWord(lastWake.transcript))
       => lastWake.onCommand = (IF lastWake.preAwake THEN 1 ELSE 0)

\* The public methods of HapticsManager that can vibrate.
HapticMethods ==
    {"vibrate", "navigate", "navigationArrival"} \cup EventHelpers

\* C24: vibrate() returns false and passes nothing to navigator.vibrate
\* when vibration is unsupported or the strength is 'off'; at strength
\* 'off' no method that can vibrate, the navigation methods included,
\* passes anything to navigator.vibrate.
C24_HapticSuppression ==
    /\ (lastHaptic.op = "vibrate" /\ (~isSupported \/ strength = "off"))
          => (lastHaptic.ret = "false" /\ lastHaptic.requests = <<>>)
    /\ (lastHaptic.op \in HapticMethods /\ strength = "off")
          => lastHaptic.requests = <<>>

\* vibrate() itself was called while suppressed.
C24_Witness ==
    /\ lastHaptic.op = "vibrate"
    /\ strength = "off"
    /\ isSupported

\* C25: no public method of HapticsManager lets an exception out, whether
\* the platform has no vibration support or the platform call raises.
C25_NoMethodThrows == ~lastHaptic.threw

\* No operation of the manager removes a history entry.
HistoryOnlyGrows == [][Len(modeHistory') >= Len(modeHistory)]_modeVars

\* C26: the transition history is bounded: over any sequence of setMode()
\* and goBack() calls the number of stored entries stays below a fixed
\* maximum (here: below the longest history the exploration allows).
C26_HistoryBounded == Len(modeHistory) < MaxHistory

\* The rules of getModeForCommand in their order: the search strings of a
\* rule and the mode it answers.
C27_Rules ==
    << [mode |-> "idle", searchStrings |-> {kw.hey_assist}],
       [mode |-> "safe-walk",
        searchStrings |-> {kw.safe_walk, kw.safewalk, kw.walk_mode}],
       [mode |-> "find-object", searchStrings |-> {kw.find, kw.search, kw.locate}],
       [mode |-> "medicine",
        searchStrings |-> {kw.medicine, kw.medication, kw.pill}],
       [mode |-> "shopping", searchStrings |-> {kw.shop, kw.barcode, kw.price}],
       [mode |-> "navigation",
        searchStrings |-> {kw.navigate, kw.directions, kw.take_me}],
       [mode |-> "detecting", searchStrings |-> {kw.detect, kw.what, kw.see}],
       [mode |-> "reading", searchStrings |-> {kw.read, kw.text}],
       [mode |-> "emergency", searchStrings |-> {kw.emergency, kw.help_me, kw.sos}],
       [mode |-> "idle", searchStrings |-> {kw.stop, kw.cancel, kw.back}] >>

\* The rules a command matches, by their place in the order.
C27_Matching(c) ==
    {i \in 1..Len(C27_Rules) :
        \E searchString \in C27_Rules[i].searchStrings :
            includes(trim(toLowerCase(c)), searchString)}

C27_FirstRule(c) ==
    IF C27_Matching(c) = {} THEN "null"
    ELSE C27_Rules[CHOOSE i \in C27_Matching(c) :
                      \A j \in C27_Matching(c) : i <= j].mode

\* C27: getModeForCommand answers the mode of the earliest rule, in the
\* order wake phrase, safe-walk, find-object, medicine, shopping,
\* navigation, detecting, reading, emergency, stop/cancel/back, that the
\* lower-cased trimmed command matches, and null when none matches; the
\* answer is the same in whatever state the manager is, and the call
\* leaves the manager as it was.
C27_FirstMatchingRuleWins ==
    [][commandResult' # commandResult
          => /\ commandResult'.mode = C27_FirstRule(command)
             /\ UNCHANGED modeVars]_vars

\* A command matching two rules was asked while the manager was in
\* emergency mode, and the earlier rule answered.
C27_Witness ==
    /\ command = CommandList[4]
    /\ Cardinality(C27_Matching(command)) = 2
    /\ commandResult = [mode |-> "safe-walk", askedIn |-> "emergency"]

C28_TierRank(priority) ==
    CASE priority = "critical" -> 0
      [] priority = "high"     -> 1
      [] priority = "normal"   -> 2
      [] priority = "low"      -> 3

C28_DistanceRank(d) ==
    CASE d = "close"  -> 0
      [] d = "medium" -> 1
      [] d = "far"    -> 2

\* a comes strictly before b: lower tier rank, or the same tier and lower
\* distance rank.
C28_Before(a, b) ==
    \/ C28_TierRank(a.priority) < C28_TierRank(b.priority)
    \/ /\ C28_TierRank(a.priority) = C28_TierRank(b.priority)
       /\ C28_DistanceRank(a.distance) < C28_DistanceRank(b.distance)

\* C28: getMostImportantDetection answers null for an empty list;
\* otherwise the element that no element comes strictly before (tier
\* critical < high < normal < low, then distance close < medium < far),
\* the first in the input among those; and it leaves its input as it was.
C28_SelectMostImportant ==
    selected.called =>
        /\ selected.argument = processed
        /\ Len(processed) = 0 => selected.result = NullDetection
        /\ Len(processed) > 0 =>
              \E i \in 1..Len(processed) :
                  /\ selected.result = processed[i]
                  /\ \A j \in 1..Len(processed) :
                        ~C28_Before(processed[j], processed[i])
                  /\ \A j \in 1..(i - 1) : C28_Before(processed[i], processed[j])

\* Two different detections of the best rank, behind a worse one: the
\* earlier of the two was answered.
C28_Witness ==
    /\ selected.called
    /\ Len(processed) = 3
    /\ C28_Before(processed[2], processed[1])
    /\ processed[2] # processed[3]
    /\ ~C28_Before(processed[2], processed[3])
    /\ ~C28_Before(processed[3], processed[2])
    /\ selected.result = processed[2]

C30_Meters10(h, fh) ==
    IF 2 * h > fh THEN 5
    ELSE IF 10 * h > 3 * fh THEN 10
    ELSE IF 20 * h > 3 * fh THEN 20
    ELSE IF 25 * h > 2 * fh THEN 40
    ELSE 60

C31_QueueDrains == Quiet ~> (queue = <<>> /\ ~isSpeaking)

\* C32: once continuous feedback is disabled, no timer of the heartbeat
\* hook calls speak(): the interval, the initial timeout and the timeouts
\* set by generateFeedback are all cancelled.
C32_NoSpeechAfterDisable ==
    (~enabled /\ lastHb.op \in {"interval", "initialTimeout", "followUp"})
        => lastHb.spoke = <<>>

\* C33: once the component is subscribed, after every handler and effect
\* of BlindCompanion its React mode state equals the current mode of the
\* mode manager.
C33_UiModeIsManagerMode == Mounted => uiMode = currentMode

\* C34: a run of the announcement effect that forwards an announcement
\* stores the clock value under the (object, direction) key of its
\* detection and leaves every other entry of the cooldown table as it was;
\* a run that is suppressed, or that has nothing to announce, and the
\* passing of time leave the whole table as it was.
C34_CooldownTableFrame ==
    [][IF lastAnnounce'.ran /\ lastAnnounce'.spoke # <<>>
       THEN /\ announcementCooldown'[cooldownKey(lastAnnounce'.detection)] = cdNow
            /\ \A k \in CooldownKeys \ {cooldownKey(lastAnnounce'.detection)} :
                  announcementCooldown'[k] = announcementCooldown[k]
       ELSE announcementCooldown' = announcementCooldown]_vars

\* An announcement was forwarded while another key of the table held an
\* earlier timestamp.
C34_Witness ==
    /\ lastAnnounce.ran
    /\ lastAnnounce.spoke # <<>>
    /\ \E k \in CooldownKeys :
          /\ k # cooldownKey(lastAnnounce.detection)
          /\ announcementCooldown[k] # 0
          /\ announcementCooldown[k] < cdNow

\* C35: after stopListening() has returned, and until startListening() is
\* called again, the recogniser is not running, whichever restart timeouts
\* of onend and onerror were outstanding when it was called.
C35_NoRestartAfterStop == stopped => recognition # "running"

\* C36: no item is handed to the sink twice, and an item that has been
\* handed to the sink, whether it played to its end or was cancelled by a
\* preemption or by stop(), is never in the pending queue again.
C36_DispatchedAtMostOnce ==
    /\ \A i, j \in 1..Len(dispatched) :
          i < j => dispatched[i].id # dispatched[j].id
    /\ Range(queue) \cap Range(dispatched) = {}
    /\ Range(queue) \cap cancelled = {}
    /\ cancelled \subseteq Range(dispatched)

\* C36 witness: a high item cancelled the item being played while others
\* were pending, and the callback of the cancelled utterance has arrived
\* since.
C36_Witness ==
    /\ last.op = "oncancelled"
    /\ last.item.priority \in {"low", "normal"}
    /\ \E i \in 1..Len(dispatched) : dispatched[i].priority = "high"
    /\ queue # <<>>

C38_PriorityNeverDecreases ==
    [][/\ modePriority(currentMode') >= modePriority(currentMode)
       /\ (currentMode # "idle" => currentMode' # "idle")
       /\ (currentMode = "emergency" => currentMode' = "emergency")]_vars

\* C38 witness: goBack() was called in emergency, entered from another
\* mode, and the manager is in emergency still.
C38_Witness ==
    /\ lastMode.op = "goBack"
    /\ lastMode.preCurrent = "emergency"
    /\ lastMode.prePrevious \notin {"idle", "emergency"}
    /\ currentMode = "emergency"

\* C39: every history entry joins two different modes, the entries form a
\* chain that starts in idle, the last entry is (previousMode, currentMode),
\* and a setMode call that returns early or is rejected adds no entry.
C39_HistoryConsistent ==
    /\ \A i \in 1..Len(modeHistory) :
          /\ modeHistory[i].from # modeHistory[i].to
          /\ modeHistory[i].from =
                IF i = 1 THEN "idle" ELSE modeHistory[i - 1].to
    /\ modeHistory # <<>> =>
          /\ modeHistory[Len(modeHistory)].from = previousMode
          /\ modeHistory[Len(modeHistory)].to = currentMode
    /\ (lastMode.op = "setMode" /\ ~SetModeAccepted) =>
          modeHistory = lastMode.preHistory

\* C39 witness: with two entries or more in the history, setMode was called
\* with the current mode.
C39_Witness ==
    /\ lastMode.op = "setMode"
    /\ lastMode.target = lastMode.preCurrent
    /\ Len(modeHistory) >= 2

====
